---- MODULE Spec2Model ----
(***************************************************************************)
(* SignBridge (bridge-communicator): the chat page's message               *)
(* synchronisation (src/pages/Chat.tsx), the conversation start of the     *)
(* user list (OnlineUsers, src/unnamed/part_003) and the backend tables    *)
(* and trigger they act on (the SQL migrations).                           *)
(*                                                                         *)
(* The backend is one store (conversations, messages, typing_indicators)   *)
(* with a realtime change feed.  Every client is one browser tab of one    *)
(* user.  An async handler is cut at its awaits: the request is committed  *)
(* by the store in the step that issues it, and the code after the await   *)
(* runs in a later step, so realtime events and other handlers interleave  *)
(* with it.                                                                *)
(***************************************************************************)
EXTENDS Integers, Sequences, FiniteSets

\* ------------------------------------------------------------------ bounds
MaxMsgs == 2
MaxInbox == 2
MaxLen == 1
MaxConvs == 3
MaxFetch == 2

\* ------------------------------------------------------------- value sets
NULL == 0
Users == {"A", "B", "C"}
Clients == {"A", "B"}
Emojis == {"up"}
Chars == {"h", "i", " "}
Outcomes == {"ok", "error", "throw"}

VARIABLES
  conversations,    \* store: table conversations, a row's id is its index
  messagesTable,    \* store: table messages, a row's id is its index
  typingTable,      \* store: table typing_indicators, a set of rows
  clock,            \* the time: now() of the store, new Date() of a client
  route,            \* client: conversationId of the chat page, NULL off it
  channel,          \* client: its messages channel: "none", "joining", "joined"
  inbox,            \* client: realtime events sent to it and not yet handled
  fetchReq,         \* client: fetchMessages in flight
  messages,         \* client: useState messages
  newMessage,       \* client: useState newMessage (the draft)
  isSending,        \* client: useState isSending
  editingMessageId, \* client: useState editingMessageId
  replyingTo,       \* client: useState replyingTo (the message's id)
  typingTimeout,    \* client: typingTimeoutRef holds a pending timer
  sendReq,          \* client: handleSendMessage suspended at an await
  opReq,            \* client: handleDeleteMessage, handlePinMessage or handleReaction at its await
  toast,            \* client: the last notification shown
  startReq,         \* user: handleStartChat suspended after its lookup
  navigated,        \* user: the conversation handleStartChat navigated to
  lastReact,        \* history: the last write to a message, if a reaction toggle
  typingChannel,    \* client: its typing channel: "none", "joining", "joined"
  typingInbox,      \* client: typing change events sent to it and not yet handled
  typingFetch,      \* client: the re-fetches of the typing rows in flight
  typingUsers,      \* client: useState typingUsers
  auth,             \* client: useAuth(): "loading", "user" (signed in) or "none"
  location,         \* client: the page the router shows
  effects,          \* client: the shown page's effects are still to run
  listChannel,      \* client: its conversations-changes channel: "none",
                    \* "joining" or "joined"
  convList,         \* client: useState conversations of the Conversations page
  listInbox,        \* client: change events of its list channel still to handle
  listFetch,        \* client: the fetchConversations calls in flight
  presence,         \* realtime: the users tracked in channel online-users
  presChannel,      \* client: its presence channel: "none", "joining",
                    \* "subscribed" (track sent) or "tracked"
  presInbox,        \* client: presence states whose sync event is to come
  onlineUsers       \* client: useState onlineUsers

storeVars == <<conversations, messagesTable, typingTable, clock>>
syncVars == <<route, channel, inbox, fetchReq, messages>>
formVars == <<newMessage, isSending, editingMessageId, replyingTo, typingTimeout, sendReq>>
presVars == <<presence, presChannel, presInbox, onlineUsers>>
dirVars == <<startReq, navigated, presVars>>
listVars == <<convList, listInbox, listFetch>>
navVars == <<auth, location, effects, listChannel, listVars>>
peerIdle == <<typingChannel, typingFetch, typingUsers>>
peerVars == <<typingChannel, typingInbox, typingFetch, typingUsers>>
vars == <<conversations, messagesTable, typingTable, clock, route, channel, inbox,
          fetchReq, messages, newMessage, isSending, editingMessageId, replyingTo,
          typingTimeout, sendReq, opReq, toast, startReq, navigated, lastReact, peerVars,
          navVars, presVars>>

\* ------------------------------------------------------------------- text
RECURSIVE SeqsUpTo(_, _)
SeqsUpTo(S, n) ==
  IF n = 0 THEN {<<>>}
  ELSE LET shorter == SeqsUpTo(S, n - 1)
       IN shorter \cup {Append(s, x) : s \in shorter, x \in S}

Texts == SeqsUpTo(Chars, MaxLen)

IsSpace(ch) == ch = " "

RECURSIVE TrimStart(_)
TrimStart(s) ==
  IF s = <<>> THEN <<>>
  ELSE IF IsSpace(Head(s)) THEN TrimStart(Tail(s)) ELSE s

RECURSIVE TrimEnd(_)
TrimEnd(s) ==
  IF s = <<>> THEN <<>>
  ELSE IF IsSpace(s[Len(s)]) THEN TrimEnd(SubSeq(s, 1, Len(s) - 1)) ELSE s

\* String.prototype.trim
Trim(s) == TrimEnd(TrimStart(s))

\* ------------------------------------------------------------- sequences
\* .order("created_at", { ascending: true }): a stable sort of the rows
RECURSIVE InsertByCreatedAt(_, _)
InsertByCreatedAt(x, s) ==
  IF s = <<>> THEN <<x>>
  ELSE IF Head(s).created_at <= x.created_at
       THEN <<Head(s)>> \o InsertByCreatedAt(x, Tail(s))
       ELSE <<x>> \o s

RECURSIVE OrderByCreatedAt(_)
OrderByCreatedAt(s) ==
  IF s = <<>> THEN <<>>
  ELSE InsertByCreatedAt(s[Len(s)], OrderByCreatedAt(SubSeq(s, 1, Len(s) - 1)))

\* ------------------------------------------------------------- the store
\* variant: the participants stored in the other order
NewConversationSwapped(p1, p2) ==
  [participant1_id |-> p2, participant2_id |-> p1, last_message_at |-> clock]

\* CREATE TABLE conversations: participants and now() as last_message_at
NewConversation(p1, p2) ==
  [participant1_id |-> p1, participant2_id |-> p2, last_message_at |-> clock]

\* variant: an insert that carries no parent reference
NewMessageRowWithoutParent(conv, sender, content, parent) ==
  [id |-> Len(messagesTable) + 1,
   conversation_id |-> conv,
   sender_id |-> sender,
   content |-> content,
   message_type |-> "text",
   created_at |-> clock,
   is_read |-> FALSE,
   edited_at |-> NULL,
   parent_message_id |-> NULL,
   is_pinned |-> FALSE,
   reactions |-> <<>>,
   is_deleted |-> FALSE,
   deleted_at |-> NULL]

\* CREATE TABLE messages and the columns added later, with their defaults
NewMessageRow(conv, sender, content, parent) ==
  [id |-> Len(messagesTable) + 1,
   conversation_id |-> conv,
   sender_id |-> sender,
   content |-> content,
   message_type |-> "text",
   created_at |-> clock,
   is_read |-> FALSE,
   edited_at |-> NULL,
   parent_message_id |-> parent,
   is_pinned |-> FALSE,
   reactions |-> <<>>,
   is_deleted |-> FALSE,
   deleted_at |-> NULL]

\* the row-level policies: a participant of the conversation
IsParticipant(u, conv) ==
  /\ conv \in 1..Len(conversations)
  /\ \/ conversations[conv].participant1_id = u
     \/ conversations[conv].participant2_id = u

\* trigger update_conversation_on_message: AFTER INSERT ON messages
\* variant: no trigger on the messages table
UpdateConversationTimestampSkipped(convs, row) == convs

UpdateConversationTimestamp(convs, row) ==
  [i \in 1..Len(convs) |->
     IF i = row.conversation_id
     THEN [convs[i] EXCEPT !.last_message_at = row.created_at]
     ELSE convs[i]]

\* the change feed: an event goes to every joined channel whose filter
\* conversation_id=eq.<conversationId> the row passes
Publish(boxes, type, row, op) ==
  [c \in Clients |->
     IF channel[c] = "joined" /\ route[c] = row.conversation_id
     THEN Append(boxes[c], [type |-> type, new |-> row, op |-> op])
     ELSE boxes[c]]

RECURSIVE PublishAll(_, _, _)
PublishAll(boxes, rows, op) ==
  IF rows = <<>> THEN boxes
  ELSE PublishAll(Publish(boxes, "UPDATE", Head(rows), op), Tail(rows), op)

\* every inbox has room for n more events
InboxRoom(n) == \A c \in Clients : Len(inbox[c]) + n <= MaxInbox

\* INSERT INTO messages: the row, the trigger, the INSERT event
CommitInsert(row) ==
  /\ messagesTable' = Append(messagesTable, row)
  /\ conversations' = UpdateConversationTimestamp(conversations, row)
  /\ inbox' = Publish(inbox, "INSERT", row, "send")
  /\ clock' = clock + 1

\* variant: the trigger declared AFTER INSERT OR UPDATE
CommitUpdateWithTrigger(u, id, row, op) ==
  IF id \in 1..Len(messagesTable) /\ IsParticipant(u, messagesTable[id].conversation_id)
  THEN /\ messagesTable' = [messagesTable EXCEPT ![id] = row]
       /\ conversations' = UpdateConversationTimestamp(conversations, row)
       /\ inbox' = Publish(inbox, "UPDATE", row, op)
       /\ UNCHANGED clock
  ELSE UNCHANGED <<conversations, messagesTable, inbox, clock>>

\* UPDATE messages ... WHERE id = <id>: the row and its UPDATE event; a row
\* the policy hides from the caller, or no row, is no change and no error
CommitUpdate(u, id, row, op) ==
  IF id \in 1..Len(messagesTable) /\ IsParticipant(u, messagesTable[id].conversation_id)
  THEN /\ messagesTable' = [messagesTable EXCEPT ![id] = row]
       /\ inbox' = Publish(inbox, "UPDATE", row, op)
       /\ UNCHANGED <<conversations, clock>>
  ELSE UNCHANGED <<conversations, messagesTable, inbox, clock>>

NoCommit == UNCHANGED <<conversations, messagesTable, inbox, clock>>

\* history: no reaction toggle is the last write to the message
NoReact ==
  [kind |-> "none", user_id |-> "", emoji |-> "", before |-> <<>>, fresh |-> FALSE,
   undoes |-> FALSE, first |-> <<>>, firstFresh |-> FALSE]

\* ----------------------------------------------------- the chat page: sync
\* fetchMessages' query: the conversation's rows that are not deleted,
\* ordered by created_at ascending
\* variant: the query without .eq("is_deleted", false)
SelectMessagesWithDeleted(conv) ==
  LET Wanted(m) == m.conversation_id = conv
  IN OrderByCreatedAt(SelectSeq(messagesTable, Wanted))

SelectMessages(conv) ==
  LET Wanted(m) == m.conversation_id = conv /\ m.is_deleted = FALSE
  IN OrderByCreatedAt(SelectSeq(messagesTable, Wanted))

\* the reactions column is JSONB: a value that is not an array is written
\* as NotArray; in an entry a missing emoji or user_id is written "" and a
\* missing count 0
NotArray == <<[emoji |-> "(not an array)", user_id |-> "", count |-> 0]>>

IsArray(reactions) == reactions /= NotArray

\* variant: the entry as stored
NormalizeReactionKept(r) == r

\* fetchMessages' coercion of one reaction: r.emoji || "", r.user_id || "",
\* r.count || 1
NormalizeReaction(r) ==
  [emoji |-> r.emoji, user_id |-> r.user_id, count |-> IF r.count = 0 THEN 1 ELSE r.count]

NormalizeMessages(data) ==
  [i \in 1..Len(data) |->
     [data[i] EXCEPT !.reactions =
        IF IsArray(data[i].reactions)
        THEN [j \in 1..Len(data[i].reactions) |-> NormalizeReaction(data[i].reactions[j])]
        ELSE <<>>]]

\* variant: the update without .neq("sender_id", user?.id)
IsUnreadForAnySender(m, u, conv) ==
  IsParticipant(u, conv) /\ m.conversation_id = conv /\ m.is_read = FALSE

IsUnreadFor(m, u, conv) ==
  IsParticipant(u, conv) /\ m.conversation_id = conv /\ m.sender_id /= u /\ m.is_read = FALSE

\* markMessagesAsRead's rows: the conversation's unread rows of other senders
UnreadFor(u, conv) ==
  LET Wanted(m) == IsUnreadFor(m, u, conv)
  IN SelectSeq(messagesTable, Wanted)

MarkRead(rows) == [i \in 1..Len(rows) |-> [rows[i] EXCEPT !.is_read = TRUE]]

\* ----------------------------------------------- the Conversations page
\* the rows of table conversations that a step inserts or updates
ChangedConversations ==
  {i \in 1..Len(conversations') :
     i > Len(conversations) \/ conversations'[i] /= conversations[i]}

IsParticipantOfRow(u, row) == row.participant1_id = u \/ row.participant2_id = u

\* the change feed of conversations: one event per changed row to every
\* mounted Conversations page with a joined channel whose user takes part
\* in the row; the handler's refetch is all that an event brings about
ListEvents ==
  /\ listInbox' =
       [u \in Clients |->
          IF listChannel[u] = "joined" /\ location[u] = "/conversations"
          THEN listInbox[u]
                 + Cardinality({i \in ChangedConversations :
                                  IsParticipantOfRow(u, conversations'[i])})
          ELSE listInbox[u]]
  /\ UNCHANGED <<convList, listFetch>>

\* .order("last_message_at", { ascending: false })
RECURSIVE InsertByLastMessageAt(_, _)
InsertByLastMessageAt(x, s) ==
  IF s = <<>> THEN <<x>>
  ELSE IF Head(s).last_message_at >= x.last_message_at
       THEN <<Head(s)>> \o InsertByLastMessageAt(x, Tail(s))
       ELSE <<x>> \o s

RECURSIVE OrderByLastMessageAt(_)
OrderByLastMessageAt(s) ==
  IF s = <<>> THEN <<>>
  ELSE InsertByLastMessageAt(s[Len(s)], OrderByLastMessageAt(SubSeq(s, 1, Len(s) - 1)))

\* conversationsWithOtherUser: the row with the participant that is not the
\* user
WithOtherUser(u, i) ==
  [id |-> i,
   participant1_id |-> conversations[i].participant1_id,
   participant2_id |-> conversations[i].participant2_id,
   last_message_at |-> conversations[i].last_message_at,
   otherUserId |-> IF conversations[i].participant1_id = u
                   THEN conversations[i].participant2_id
                   ELSE conversations[i].participant1_id]

\* fetchConversations' query and its map: the user's conversations, the
\* latest first
RECURSIVE ListRows(_, _)
ListRows(u, n) ==
  IF n = 0 THEN <<>>
  ELSE IF IsParticipantOfRow(u, conversations[n])
       THEN Append(ListRows(u, n - 1), WithOtherUser(u, n))
       ELSE ListRows(u, n - 1)

SelectConversations(u) == OrderByLastMessageAt(ListRows(u, Len(conversations)))

\* the Conversations page, when it is the page shown, is unmounted: its
\* list goes with it, and what its list channel and its fetches in flight
\* still bring is set on no component
ListLeft(u) ==
  IF location[u] = "/conversations"
  THEN /\ convList' = [convList EXCEPT ![u] = <<>>]
       /\ listInbox' = [listInbox EXCEPT ![u] = 0]
       /\ listFetch' = [listFetch EXCEPT ![u] = <<>>]
  ELSE UNCHANGED listVars

\* the effect of Chat on mount with a user and a conversationId:
\* the chat page is shown to a signed-in user, by a click in the list of
\* the Conversations page or once useAuth() resolved on the chat page:
\* fetchMessages and the channel subscription are issued (the store serves
\* them in later steps, in either order), markMessagesAsRead is committed
Mount(c, conv) ==
  /\ route[c] = NULL
  /\ auth[c] = "user"
  /\ IF effects[c] THEN location[c] = "/chat" ELSE location[c] = "/conversations"
  /\ conv \in 1..Len(conversations)
  /\ LET read == MarkRead(UnreadFor(c, conv))
     IN /\ InboxRoom(Len(read))
        /\ messagesTable' =
             [i \in 1..Len(messagesTable) |->
                IF IsUnreadFor(messagesTable[i], c, conv)
                THEN [messagesTable[i] EXCEPT !.is_read = TRUE]
                ELSE messagesTable[i]]
        /\ inbox' = PublishAll(inbox, read, "read")
  /\ route' = [route EXCEPT ![c] = conv]
  /\ channel' = [channel EXCEPT ![c] = "joining"]
  /\ fetchReq' = [fetchReq EXCEPT ![c] = [stage |-> "requested", data |-> <<>>]]
  /\ lastReact' = [id \in DOMAIN lastReact |->
       IF id <= Len(messagesTable) /\ IsUnreadFor(messagesTable[id], c, conv)
       THEN NoReact ELSE lastReact[id]]
  /\ typingChannel' = [typingChannel EXCEPT ![c] = "joining"]
  /\ location' = [location EXCEPT ![c] = "/chat"]
  /\ effects' = [effects EXCEPT ![c] = FALSE]
  /\ ListLeft(c)
  /\ UNCHANGED <<conversations, typingTable, clock, messages, formVars, opReq,
                 toast, dirVars, auth, listChannel, typingInbox, typingFetch,
                 typingUsers>>

\* the store accepts the subscription of subscribeToMessages
ServerJoin(c) ==
  /\ channel[c] = "joining"
  /\ channel' = [channel EXCEPT ![c] = "joined"]
  /\ UNCHANGED <<storeVars, route, inbox, fetchReq, messages, formVars, opReq,
                 toast, dirVars, navVars, peerVars, lastReact>>

\* the store answers fetchMessages' query: the rows, or an error
ServerFetch(c, outcome) ==
  /\ fetchReq[c].stage = "requested"
  /\ fetchReq' = [fetchReq EXCEPT ![c] =
       IF outcome = "ok" /\ IsParticipant(c, route[c])
       THEN [stage |-> "data", data |-> SelectMessages(route[c])]
       ELSE IF outcome = "ok" THEN [stage |-> "data", data |-> <<>>]
       ELSE [stage |-> "error", data |-> <<>>]]
  /\ UNCHANGED <<storeVars, route, channel, inbox, messages, formVars, opReq,
                 toast, dirVars, navVars, peerVars, lastReact>>

\* fetchMessages after its await: the sequence is replaced, or the error shown
FetchResponse(c) ==
  /\ fetchReq[c].stage \in {"data", "error"}
  /\ IF fetchReq[c].stage = "data"
     THEN /\ messages' = [messages EXCEPT ![c] = NormalizeMessages(fetchReq[c].data)]
          /\ UNCHANGED toast
     ELSE /\ toast' = [toast EXCEPT ![c] = "Failed to load messages"]
          /\ UNCHANGED messages
  /\ fetchReq' = [fetchReq EXCEPT ![c] = [stage |-> "idle", data |-> <<>>]]
  /\ UNCHANGED <<storeVars, route, channel, inbox, formVars, opReq, dirVars, navVars, peerVars, lastReact>>

\* subscribeToMessages' INSERT handler
\* variant: the handler without its is_deleted test
OnInsertAlways(current, newMsg) == Append(current, newMsg)

OnInsert(current, newMsg) ==
  IF ~newMsg.is_deleted THEN Append(current, newMsg) ELSE current

\* subscribeToMessages' UPDATE handler
\* variant: the UPDATE event is dropped
OnUpdateIgnored(current, updated) == current

\* variant: the updated entry is taken out and put last
OnUpdateMovedLast(current, updated) ==
  LET Other(m) == m.id /= updated.id
  IN Append(SelectSeq(current, Other), updated)

OnUpdate(current, updated) ==
  [i \in 1..Len(current) |-> IF current[i].id = updated.id THEN updated ELSE current[i]]

\* the client handles the next realtime event of its channel
Deliver(c) ==
  /\ inbox[c] /= <<>>
  /\ LET ev == Head(inbox[c])
     IN messages' = [messages EXCEPT ![c] =
          IF ev.type = "INSERT" THEN OnInsert(messages[c], ev.new)
          ELSE OnUpdate(messages[c], ev.new)]
  /\ inbox' = [inbox EXCEPT ![c] = Tail(inbox[c])]
  /\ UNCHANGED <<conversations, messagesTable, typingTable, clock, route, channel,
                 fetchReq, formVars, opReq, toast, dirVars, navVars, peerVars, lastReact>>

\* ----------------------------------------------------- the chat page: form
LocalIds(c) == {messages[c][i].id : i \in 1..Len(messages[c])}

\* messages.find((m) => m.id === messageId), NULL when there is none
FindMessage(c, id) ==
  IF id \in LocalIds(c)
  THEN messages[c][CHOOSE i \in 1..Len(messages[c]) :
                     /\ messages[c][i].id = id
                     /\ \A j \in 1..(i - 1) : messages[c][j].id /= id]
  ELSE NULL

HasTypingRow(conv, u) ==
  \E r \in typingTable : r.conversation_id = conv /\ r.user_id = u

\* typing_indicators.upsert of handleTyping: no onConflict is given, so the
\* row is inserted with a fresh id and UNIQUE(conversation_id, user_id)
\* rejects it when the pair has a row; the result is never looked at
UpsertTyping(conv, u) ==
  IF HasTypingRow(conv, u) THEN typingTable
  ELSE typingTable \cup {[conversation_id |-> conv, user_id |-> u, started_at |-> clock]}

\* typing_indicators.delete().eq(conversation_id).eq(user_id)
DeleteTyping(conv, u) ==
  {r \in typingTable : ~(r.conversation_id = conv /\ r.user_id = u)}

\* the change feed of typing_indicators: a change of the table sends one
\* event to every joined typing channel of the conversation
PublishTyping(conv) ==
  [c \in Clients |->
     IF typingChannel[c] = "joined" /\ route[c] = conv
     THEN typingInbox[c] + 1
     ELSE typingInbox[c]]

TypingEvents(conv) ==
  /\ typingInbox' = IF typingTable' /= typingTable THEN PublishTyping(conv) ELSE typingInbox
  /\ \A c \in Clients : typingInbox'[c] <= MaxInbox
  /\ UNCHANGED peerIdle

\* the Input's onChange: setNewMessage, then handleTyping (the timer is
\* restarted, the typing row is upserted without waiting for the result)
OnChange(c, text, outcome) ==
  /\ route[c] /= NULL
  /\ ~isSending[c]
  /\ newMessage' = [newMessage EXCEPT ![c] = text]
  /\ typingTable' = IF outcome = "ok" THEN UpsertTyping(route[c], c) ELSE typingTable
  /\ typingTimeout' = [typingTimeout EXCEPT ![c] = TRUE]
  /\ TypingEvents(route[c])
  /\ UNCHANGED <<conversations, messagesTable, clock, syncVars, isSending, editingMessageId,
                 replyingTo, sendReq, opReq, toast, dirVars, navVars, lastReact>>

\* handleTyping's timer fires after the quiet period: the row is deleted
TypingTimerFires(c, outcome) ==
  /\ typingTimeout[c]
  /\ typingTimeout' = [typingTimeout EXCEPT ![c] = FALSE]
  /\ typingTable' = IF outcome = "ok" THEN DeleteTyping(route[c], c) ELSE typingTable
  /\ TypingEvents(route[c])
  /\ UNCHANGED <<conversations, messagesTable, clock, syncVars, newMessage, isSending,
                 editingMessageId, replyingTo, sendReq, opReq, toast, dirVars, navVars, lastReact>>

\* ------------------------------------------- the chat page: who is typing
\* the store accepts the subscription of subscribeToTyping
ServerJoinTyping(c) ==
  /\ typingChannel[c] = "joining"
  /\ typingChannel' = [typingChannel EXCEPT ![c] = "joined"]
  /\ UNCHANGED <<storeVars, syncVars, formVars, opReq, toast, dirVars, navVars, lastReact,
                 typingInbox, typingFetch, typingUsers>>

\* the rows the handler's select asks for: the conversation's typing rows
\* of the other users, which the SELECT policy shows to the users with a
\* conversation_participants row (the migration writes one for each of a
\* conversation's two participants)
SelectTyping(c) ==
  IF IsParticipant(c, route[c])
  THEN {r.user_id : r \in {x \in typingTable : x.conversation_id = route[c] /\ x.user_id /= c}}
  ELSE {}

\* without position k
RemoveAt(s, k) == [i \in 1..(Len(s) - 1) |-> IF i < k THEN s[i] ELSE s[i + 1]]

\* subscribeToTyping's handler up to its await: whatever the event says,
\* the typing rows are asked for again
OnTypingChange(c) ==
  /\ typingInbox[c] > 0
  /\ Len(typingFetch[c]) < MaxFetch
  /\ typingInbox' = [typingInbox EXCEPT ![c] = @ - 1]
  /\ typingFetch' = [typingFetch EXCEPT ![c] = Append(@, [stage |-> "requested", data |-> {}])]
  /\ UNCHANGED <<storeVars, syncVars, formVars, opReq, toast, dirVars, navVars, lastReact,
                 typingChannel, typingUsers>>

\* the store answers one of the client's selects: the rows, or an error
ServerSelectTyping(c, k, outcome) ==
  /\ k \in 1..Len(typingFetch[c])
  /\ typingFetch[c][k].stage = "requested"
  /\ typingFetch' = [typingFetch EXCEPT ![c][k] =
       IF outcome = "ok" THEN [stage |-> "data", data |-> SelectTyping(c)]
       ELSE [stage |-> "error", data |-> {}]]
  /\ UNCHANGED <<storeVars, syncVars, formVars, opReq, toast, dirVars, navVars, lastReact,
                 typingChannel, typingInbox, typingUsers>>

\* the handler after its await, for whichever answer arrives next: if
\* (data) setTypingUsers(data.map(...))
TypingResponse(c, k) ==
  /\ k \in 1..Len(typingFetch[c])
  /\ typingFetch[c][k].stage /= "requested"
  /\ typingUsers' = [typingUsers EXCEPT ![c] =
       IF typingFetch[c][k].stage = "data" THEN typingFetch[c][k].data ELSE @]
  /\ typingFetch' = [typingFetch EXCEPT ![c] = RemoveAt(@, k)]
  /\ UNCHANGED <<storeVars, syncVars, formVars, opReq, toast, dirVars, navVars, lastReact,
                 typingChannel, typingInbox>>

Idle == [stage |-> "idle", outcome |-> "ok"]

\* handleSendMessage's guard: the draft is empty after trim, or a
\* submission is in flight
\* variants of the guard, each dropping one of its two tests
SendRejectedIgnoringFlag(c) == Trim(newMessage[c]) = <<>>

SendRejectedUntrimmed(c) == newMessage[c] = <<>> \/ isSending[c]

SendRejected(c) == Trim(newMessage[c]) = <<>> \/ isSending[c]

\* the row handleSendMessage's edit branch writes
EditedRow(c) ==
  [messagesTable[editingMessageId[c]] EXCEPT !.content = newMessage[c], !.edited_at = clock]

\* handleSendMessage up to its first await: the guard, setIsSending(true),
\* and the update (edit mode) or the insert, which the store commits or fails
HandleSendMessage(c, outcome) ==
  /\ route[c] /= NULL
  /\ IF SendRejected(c)
     THEN UNCHANGED vars
     ELSE /\ isSending' = [isSending EXCEPT ![c] = TRUE]
          /\ IF editingMessageId[c] /= NULL
             THEN /\ sendReq' = [sendReq EXCEPT ![c] = [stage |-> "update", outcome |-> outcome]]
                  /\ IF outcome = "ok"
                     THEN /\ InboxRoom(1)
                          /\ CommitUpdate(c, editingMessageId[c], EditedRow(c), "edit")
                     ELSE NoCommit
             ELSE LET done == IF outcome = "ok" /\ ~IsParticipant(c, route[c])
                              THEN "error" ELSE outcome
                  IN /\ sendReq' = [sendReq EXCEPT ![c] = [stage |-> "insert", outcome |-> done]]
                     /\ IF done = "ok"
                        THEN /\ InboxRoom(1)
                             /\ Len(messagesTable) < MaxMsgs
                             /\ CommitInsert(NewMessageRow(route[c], c, newMessage[c], replyingTo[c]))
                        ELSE NoCommit
          /\ ListEvents
          /\ UNCHANGED <<typingTable, route, channel, fetchReq, messages, newMessage,
                         editingMessageId, replyingTo, typingTimeout, opReq, toast,
                         dirVars, auth, location, effects, listChannel, peerVars>>
          /\ lastReact' = IF outcome = "ok" /\ editingMessageId[c] /= NULL
                          THEN [lastReact EXCEPT ![editingMessageId[c]] = NoReact]
                          ELSE lastReact

\* handleSendMessage after its first await: a throw (and a failed insert)
\* goes to catch and finally; otherwise edit mode, the draft and the reply
\* target are cleared and the typing row's delete is issued
SendResume(c, outcome) ==
  /\ sendReq[c].stage \in {"update", "insert"}
  /\ IF \/ sendReq[c].outcome = "throw"
        \/ sendReq[c].stage = "insert" /\ sendReq[c].outcome = "error"
     THEN /\ toast' = [toast EXCEPT ![c] = "Failed to send message"]
          /\ isSending' = [isSending EXCEPT ![c] = FALSE]
          /\ sendReq' = [sendReq EXCEPT ![c] = Idle]
          /\ UNCHANGED <<typingTable, newMessage, editingMessageId, replyingTo>>
     ELSE /\ editingMessageId' = [editingMessageId EXCEPT ![c] =
               IF sendReq[c].stage = "update" THEN NULL ELSE @]
          /\ newMessage' = [newMessage EXCEPT ![c] = <<>>]
          /\ replyingTo' = [replyingTo EXCEPT ![c] = NULL]
          /\ typingTable' = IF outcome = "ok" THEN DeleteTyping(route[c], c) ELSE typingTable
          /\ sendReq' = [sendReq EXCEPT ![c] = [stage |-> "typing", outcome |-> outcome]]
          /\ UNCHANGED <<toast, isSending>>
  /\ TypingEvents(route[c])
  /\ UNCHANGED <<conversations, messagesTable, clock, syncVars, typingTimeout, opReq,
                 dirVars, navVars, lastReact>>

\* variant: setIsSending(false) as the last statement of try, no finally
SendFinishWithoutFinally(c) ==
  /\ sendReq[c].stage = "typing"
  /\ toast' = [toast EXCEPT ![c] =
       IF sendReq[c].outcome = "throw" THEN "Failed to send message" ELSE @]
  /\ isSending' = [isSending EXCEPT ![c] = IF sendReq[c].outcome = "throw" THEN @ ELSE FALSE]
  /\ sendReq' = [sendReq EXCEPT ![c] = Idle]
  /\ UNCHANGED <<storeVars, syncVars, newMessage, editingMessageId, replyingTo,
                 typingTimeout, opReq, dirVars, navVars, peerVars, lastReact>>

\* handleSendMessage after the typing row's delete: catch on a throw, finally
SendFinish(c) ==
  /\ sendReq[c].stage = "typing"
  /\ toast' = [toast EXCEPT ![c] =
       IF sendReq[c].outcome = "throw" THEN "Failed to send message" ELSE @]
  /\ isSending' = [isSending EXCEPT ![c] = FALSE]
  /\ sendReq' = [sendReq EXCEPT ![c] = Idle]
  /\ UNCHANGED <<storeVars, syncVars, newMessage, editingMessageId, replyingTo,
                 typingTimeout, opReq, dirVars, navVars, peerVars, lastReact>>

\* handleEditMessage (offered on the user's own messages): the draft
\* becomes the message's content and edit mode is entered
HandleEditMessage(c, id) ==
  /\ route[c] /= NULL
  /\ id \in LocalIds(c)
  /\ FindMessage(c, id).sender_id = c
  /\ newMessage' = [newMessage EXCEPT ![c] = FindMessage(c, id).content]
  /\ editingMessageId' = [editingMessageId EXCEPT ![c] = id]
  /\ UNCHANGED <<storeVars, syncVars, isSending, replyingTo, typingTimeout, sendReq,
                 opReq, toast, dirVars, navVars, peerVars, lastReact>>

\* the X button of the "Editing message" bar
CancelEdit(c) ==
  /\ editingMessageId[c] /= NULL
  /\ editingMessageId' = [editingMessageId EXCEPT ![c] = NULL]
  /\ newMessage' = [newMessage EXCEPT ![c] = <<>>]
  /\ UNCHANGED <<storeVars, syncVars, isSending, replyingTo, typingTimeout, sendReq,
                 opReq, toast, dirVars, navVars, peerVars, lastReact>>

\* handleReply
HandleReply(c, id) ==
  /\ route[c] /= NULL
  /\ id \in LocalIds(c)
  /\ replyingTo' = [replyingTo EXCEPT ![c] = id]
  /\ UNCHANGED <<storeVars, syncVars, newMessage, isSending, editingMessageId,
                 typingTimeout, sendReq, opReq, toast, dirVars, navVars, peerVars, lastReact>>

\* the X button of the "Replying to" bar
CancelReply(c) ==
  /\ replyingTo[c] /= NULL
  /\ replyingTo' = [replyingTo EXCEPT ![c] = NULL]
  /\ UNCHANGED <<storeVars, syncVars, newMessage, isSending, editingMessageId,
                 typingTimeout, sendReq, opReq, toast, dirVars, navVars, peerVars, lastReact>>

NoOp == [op |-> "idle", id |-> NULL, outcome |-> "ok", pinned |-> FALSE]

\* handleDeleteMessage (offered on the user's own messages) up to its
\* await: the soft-delete update, which the store commits or fails
HandleDeleteMessage(c, id, outcome) ==
  /\ route[c] /= NULL
  /\ id \in LocalIds(c)
  /\ FindMessage(c, id).sender_id = c
  /\ opReq[c].op = "idle"
  /\ opReq' = [opReq EXCEPT ![c] =
       [op |-> "delete", id |-> id, outcome |-> outcome, pinned |-> FALSE]]
  /\ IF outcome = "ok"
     THEN /\ InboxRoom(1)
          /\ CommitUpdate(c, id, [messagesTable[id] EXCEPT !.is_deleted = TRUE,
                                                           !.deleted_at = clock], "delete")
          /\ lastReact' = [lastReact EXCEPT ![id] = NoReact]
     ELSE NoCommit /\ UNCHANGED lastReact
  /\ UNCHANGED <<typingTable, route, channel, fetchReq, messages, formVars, toast, dirVars, navVars, peerVars>>

\* handleDeleteMessage after its await: the message is filtered out of the
\* local sequence whatever the result said; only a throw reaches catch
DeleteResume(c) ==
  /\ opReq[c].op = "delete"
  /\ IF opReq[c].outcome = "throw"
     THEN /\ toast' = [toast EXCEPT ![c] = "Failed to delete message"]
          /\ UNCHANGED messages
     ELSE /\ LET Kept(m) == m.id /= opReq[c].id
             IN messages' = [messages EXCEPT ![c] = SelectSeq(messages[c], Kept)]
          /\ toast' = [toast EXCEPT ![c] = "Message deleted"]
  /\ opReq' = [opReq EXCEPT ![c] = NoOp]
  /\ UNCHANGED <<storeVars, route, channel, inbox, fetchReq, formVars, dirVars, navVars, peerVars, lastReact>>

\* handlePinMessage(message.id, message.is_pinned) up to its await: the
\* flag is written as the negation of the local copy's
HandlePinMessage(c, id, outcome) ==
  /\ route[c] /= NULL
  /\ id \in LocalIds(c)
  /\ opReq[c].op = "idle"
  /\ LET currentPinned == FindMessage(c, id).is_pinned
     IN /\ opReq' = [opReq EXCEPT ![c] =
             [op |-> "pin", id |-> id, outcome |-> outcome, pinned |-> currentPinned]]
        /\ IF outcome = "ok"
           THEN /\ InboxRoom(1)
                /\ CommitUpdate(c, id, [messagesTable[id] EXCEPT !.is_pinned = ~currentPinned],
                                "pin")
                /\ lastReact' = [lastReact EXCEPT ![id] = NoReact]
           ELSE NoCommit /\ UNCHANGED lastReact
  /\ UNCHANGED <<typingTable, route, channel, fetchReq, messages, formVars, toast, dirVars, navVars, peerVars>>

\* handlePinMessage after its await: the result is not looked at, the
\* toast says pinned or unpinned; only a throw reaches catch
PinResume(c) ==
  /\ opReq[c].op = "pin"
  /\ toast' = [toast EXCEPT ![c] =
       IF opReq[c].outcome = "throw" THEN "Failed to pin message"
       ELSE IF opReq[c].pinned THEN "Message unpinned" ELSE "Message pinned"]
  /\ opReq' = [opReq EXCEPT ![c] = NoOp]
  /\ UNCHANGED <<storeVars, syncVars, formVars, dirVars, navVars, peerVars, lastReact>>

\* handleReaction's new collection, from the local copy of the message
IsReactionOf(r, emoji, u) == r.emoji = emoji /\ r.user_id = u

HasReaction(reactions, emoji, u) ==
  \E i \in 1..Len(reactions) : IsReactionOf(reactions[i], emoji, u)

\* variant: a removal that ignores the user
RemoveReactionOfAnyUser(reactions, emoji, u) ==
  LET Kept(r) == r.emoji /= emoji
  IN SelectSeq(reactions, Kept)

RemoveReaction(reactions, emoji, u) ==
  LET Kept(r) == ~IsReactionOf(r, emoji, u)
  IN SelectSeq(reactions, Kept)

\* variant: the new record put first
AddReactionFirst(reactions, emoji, u) ==
  <<[emoji |-> emoji, user_id |-> u, count |-> 1]>> \o reactions

AddReaction(reactions, emoji, u) ==
  Append(reactions, [emoji |-> emoji, user_id |-> u, count |-> 1])

\* variant: a toggle that never removes
NewReactionsAlwaysAdd(reactions, emoji, u) == AddReaction(reactions, emoji, u)

NewReactions(reactions, emoji, u) ==
  IF HasReaction(reactions, emoji, u)
  THEN RemoveReaction(reactions, emoji, u)
  ELSE AddReaction(reactions, emoji, u)

\* history of a reaction toggle that the store commits: what it did, from
\* which stored collection, whether the local copy it was computed from was
\* the stored one, and whether it takes back the reaction that the write
\* before it, by the same user with the same emoji, added
ReactRecord(c, id, emoji, reactions) ==
  LET last == lastReact[id]
      kind == IF HasReaction(reactions, emoji, c) THEN "remove" ELSE "add"
      undoes == /\ kind = "remove"
                /\ last.kind = "add"
                /\ last.user_id = c
                /\ last.emoji = emoji
  IN [kind |-> kind,
      user_id |-> c,
      emoji |-> emoji,
      before |-> messagesTable[id].reactions,
      fresh |-> reactions = messagesTable[id].reactions,
      undoes |-> undoes,
      first |-> IF undoes THEN last.before ELSE <<>>,
      firstFresh |-> undoes /\ last.fresh]

\* handleReaction up to its await: the whole collection is written back
HandleReaction(c, id, emoji, outcome) ==
  /\ route[c] /= NULL
  /\ id \in LocalIds(c)
  /\ opReq[c].op = "idle"
  /\ opReq' = [opReq EXCEPT ![c] =
       [op |-> "react", id |-> id, outcome |-> outcome, pinned |-> FALSE]]
  /\ LET reactions == FindMessage(c, id).reactions
         newReactions == NewReactions(reactions, emoji, c)
     IN IF outcome = "ok"
        THEN /\ InboxRoom(1)
             /\ CommitUpdate(c, id, [messagesTable[id] EXCEPT !.reactions = newReactions],
                             "react")
             /\ lastReact' = [lastReact EXCEPT ![id] = ReactRecord(c, id, emoji, reactions)]
        ELSE NoCommit /\ UNCHANGED lastReact
  /\ UNCHANGED <<typingTable, route, channel, fetchReq, messages, formVars, toast, dirVars, navVars, peerVars>>

\* handleReaction after its await: nothing follows; a throw is logged to
\* the console
ReactResume(c) ==
  /\ opReq[c].op = "react"
  /\ opReq' = [opReq EXCEPT ![c] = NoOp]
  /\ UNCHANGED <<storeVars, syncVars, formVars, toast, dirVars, navVars, peerVars, lastReact>>

\* --------------------------------------------- the user list: presence
\* the presence channel sends its state to every client that has joined
PublishPresence(state, joined) ==
  [c \in Clients |-> IF c \in joined THEN Append(presInbox[c], state) ELSE presInbox[c]]

PresenceJoinedClients == {c \in Clients : presChannel[c] \in {"subscribed", "tracked"}}

\* variant: the sync handler without its test of presence.user_id
OnlineOfAll(state, u) == state

\* the sync handler's users: the presences of the state that are not the
\* user's own
OnlineOf(state, u) == state \ {u}

\* the effect of OnlineUsers with a user: supabase.channel("online-users")
\* ... .subscribe(...)
PresenceSubscribe(c) ==
  /\ auth[c] = "user"
  /\ presChannel[c] = "none"
  /\ presChannel' = [presChannel EXCEPT ![c] = "joining"]
  /\ UNCHANGED <<storeVars, syncVars, formVars, opReq, toast, lastReact, peerVars, navVars,
                 startReq, navigated, presence, presInbox, onlineUsers>>

\* the channel reports SUBSCRIBED: the presence state is sent to the client
\* and the subscribe callback sends channel.track(...)
PresenceJoined(c) ==
  /\ presChannel[c] = "joining"
  /\ Len(presInbox[c]) < MaxInbox
  /\ presChannel' = [presChannel EXCEPT ![c] = "subscribed"]
  /\ presInbox' = PublishPresence(presence, {c})
  /\ UNCHANGED <<storeVars, syncVars, formVars, opReq, toast, lastReact, peerVars, navVars,
                 startReq, navigated, presence, onlineUsers>>

\* the channel takes the client's track: the user is present, and the new
\* state goes to every joined client
PresenceTrack(c) ==
  /\ presChannel[c] = "subscribed"
  /\ \A d \in PresenceJoinedClients : Len(presInbox[d]) < MaxInbox
  /\ presChannel' = [presChannel EXCEPT ![c] = "tracked"]
  /\ presence' = presence \cup {c}
  /\ presInbox' = PublishPresence(presence', PresenceJoinedClients)
  /\ UNCHANGED <<storeVars, syncVars, formVars, opReq, toast, lastReact, peerVars, navVars,
                 startReq, navigated, onlineUsers>>

\* the handler of the presence sync event: the list is built anew from
\* channel.presenceState()
PresenceSync(c) ==
  /\ presInbox[c] /= <<>>
  /\ onlineUsers' = [onlineUsers EXCEPT ![c] = OnlineOf(Head(presInbox[c]), c)]
  /\ presInbox' = [presInbox EXCEPT ![c] = Tail(@)]
  /\ UNCHANGED <<storeVars, syncVars, formVars, opReq, toast, lastReact, peerVars, navVars,
                 startReq, navigated, presence, presChannel>>

\* the cleanup of the effect: channel.unsubscribe(); the user is present
\* no longer, the other joined clients get the new state, and the
\* component's list goes with it
PresenceUnsubscribe(c) ==
  /\ presChannel[c] /= "none"
  /\ \A d \in PresenceJoinedClients \ {c} : Len(presInbox[d]) < MaxInbox
  /\ presChannel' = [presChannel EXCEPT ![c] = "none"]
  /\ presence' = presence \ {c}
  /\ presInbox' =
       [PublishPresence(presence',
                        IF c \in presence THEN PresenceJoinedClients \ {c} ELSE {})
          EXCEPT ![c] = <<>>]
  /\ onlineUsers' = [onlineUsers EXCEPT ![c] = {}]
  /\ UNCHANGED <<storeVars, syncVars, formVars, opReq, toast, lastReact, peerVars, navVars,
                 startReq, navigated>>

\* ------------------------------------------------- the user list: start chat
\* the rows handleStartChat's lookup matches: the pair in either order
MatchingConversations(u, other) ==
  {i \in 1..Len(conversations) :
     \/ conversations[i].participant1_id = u /\ conversations[i].participant2_id = other
     \/ conversations[i].participant1_id = other /\ conversations[i].participant2_id = u}

\* .maybeSingle(): the row when exactly one matches, no data when none
\* matches, and an error with no data when more than one does
MaybeSingle(ids) == IF Cardinality(ids) = 1 THEN CHOOSE i \in ids : TRUE ELSE NULL

NoStart == [stage |-> "idle", other |-> "", existed |-> FALSE]

\* handleStartChat up to the lookup's answer: an existing conversation is
\* navigated to; with no data (none, several, or a failed lookup) the
\* handler goes on to insert; a throw is caught
StartChatLookup(u, other, outcome) ==
  /\ u /= other
  /\ startReq[u].stage = "idle"
  /\ LET existingConversation == IF outcome = "ok"
                                 THEN MaybeSingle(MatchingConversations(u, other))
                                 ELSE NULL
     IN IF outcome = "throw"
        THEN /\ toast' = [toast EXCEPT ![u] = "Failed to start conversation"]
             /\ UNCHANGED <<startReq, navigated>>
        ELSE IF existingConversation /= NULL
        THEN /\ navigated' = [navigated EXCEPT ![u] = existingConversation]
             /\ UNCHANGED <<startReq, toast>>
        ELSE /\ startReq' = [startReq EXCEPT ![u] =
                  [stage |-> "insert", other |-> other,
                   existed |-> MatchingConversations(u, other) /= {}]]
             /\ UNCHANGED <<navigated, toast>>
  /\ UNCHANGED <<storeVars, syncVars, formVars, opReq, lastReact, peerVars, navVars,
                 presVars>>

\* handleStartChat from the insert on: the new row is navigated to, a
\* failure is notified
StartChatInsert(u, outcome) ==
  /\ startReq[u].stage = "insert"
  /\ startReq' = [startReq EXCEPT ![u] = NoStart]
  /\ IF outcome = "ok"
     THEN /\ Len(conversations) < MaxConvs
          /\ conversations' = Append(conversations, NewConversation(u, startReq[u].other))
          /\ clock' = clock + 1
          /\ navigated' = [navigated EXCEPT ![u] = Len(conversations) + 1]
          /\ UNCHANGED toast
     ELSE /\ toast' = [toast EXCEPT ![u] = "Failed to start conversation"]
          /\ UNCHANGED <<conversations, clock, navigated>>
  /\ ListEvents
  /\ UNCHANGED <<messagesTable, typingTable, syncVars, formVars, opReq, lastReact, peerVars,
                 auth, location, effects, listChannel, presVars>>

\* no load in flight
NoFetch == [stage |-> "idle", data |-> <<>>]

\* ------------------------------------------------------------ navigation
\* the pages whose effect sends a visitor without a session to /auth
GatedPages == {"/home", "/settings", "/profile", "/conversations", "/chat"}

\* the landing and the sign-in page, whose effect sends a signed-in visitor
\* to /home
GuestPages == {"/", "/auth"}

\* the routes of the application; the Help page reads no auth state
Pages == GatedPages \cup GuestPages \cup {"/help"}

RedirectWhileLoading(page, a) ==
  IF a /= "user" /\ page \in GatedPages THEN "/auth"
  ELSE IF a = "user" /\ page \in GuestPages THEN "/home"
  ELSE page

\* if (!loading && !user) navigate("/auth") on the gated pages,
\* if (!loading && user) navigate("/home") on Index and Auth: the page shown
\* once the effects of `page` ran under auth state `a`
RedirectOf(page, a) ==
  IF a = "none" /\ page \in GatedPages THEN "/auth"
  ELSE IF a = "user" /\ page \in GuestPages THEN "/home"
  ELSE page

\* useAuth() leaves its loading state, with or without a session
AuthResolved(u, signedIn) ==
  /\ auth[u] = "loading"
  /\ auth' = [auth EXCEPT ![u] = IF signedIn THEN "user" ELSE "none"]
  /\ effects' = [effects EXCEPT ![u] = TRUE]
  /\ UNCHANGED <<storeVars, syncVars, formVars, opReq, toast, dirVars, lastReact,
                 peerVars, location, listChannel, listVars>>

\* onClick={() => navigate(...)}: the buttons of each page; the chat page
\* of a signed-in user is entered by Mount and left by Unmount, and the
\* Help page goes back to the page that linked to it
Links(page) ==
  CASE page = "/" -> {"/auth", "/help"}
    [] page = "/auth" -> {"/"}
    [] page = "/home" -> {"/settings", "/help"}
    [] page = "/settings" -> {"/home"}
    [] page = "/profile" -> {"/home"}
    [] page = "/conversations" -> {"/home"}
    [] page = "/chat" -> {"/conversations"}
    [] page = "/help" -> {"/", "/home"}

\* a button shows another page; the effects of a page run before the next
\* user event
Visit(u, page) ==
  /\ ~effects[u]
  /\ route[u] = NULL
  /\ page \in Links(location[u])
  /\ location' = [location EXCEPT ![u] = page]
  /\ effects' = [effects EXCEPT ![u] = TRUE]
  /\ ListLeft(u)
  /\ UNCHANGED <<storeVars, syncVars, formVars, opReq, toast, dirVars, lastReact,
                 peerVars, auth, listChannel>>

\* the address bar loads a page of the application: the document starts
\* anew, with useAuth() loading and no channel
Open(u, page) ==
  /\ ~effects[u]
  /\ route[u] = NULL
  /\ page \in Pages
  /\ location' = [location EXCEPT ![u] = page]
  /\ auth' = [auth EXCEPT ![u] = "loading"]
  /\ effects' = [effects EXCEPT ![u] = TRUE]
  /\ listChannel' = [listChannel EXCEPT ![u] = "none"]
  /\ ListLeft(u)
  /\ UNCHANGED <<storeVars, syncVars, formVars, opReq, toast, dirVars, lastReact,
                 peerVars>>

\* a fetchConversations call that the store has not answered
ListRequested == [stage |-> "requested", data |-> <<>>]

\* the effects of the shown page: the auth gate of the page and, on the
\* Conversations page, if (user) { fetchConversations();
\* subscribeToConversations(); }, whose returned cleanup the effect drops
PageEffects(u) ==
  /\ effects[u]
  /\ ~(location[u] = "/chat" /\ auth[u] = "user")
  /\ location' = [location EXCEPT ![u] = RedirectOf(location[u], auth[u])]
  /\ effects' = [effects EXCEPT ![u] = location'[u] /= location[u]]
  /\ IF location[u] = "/conversations" /\ auth[u] = "user"
     THEN /\ Len(listFetch[u]) < MaxFetch
          /\ listChannel' = [listChannel EXCEPT ![u] = "joining"]
          /\ listFetch' = [listFetch EXCEPT ![u] = Append(@, ListRequested)]
     ELSE UNCHANGED <<listChannel, listFetch>>
  /\ UNCHANGED <<storeVars, syncVars, formVars, opReq, toast, dirVars, lastReact,
                 peerVars, auth, convList, listInbox>>

\* the store accepts the subscription of subscribeToConversations
ServerJoinList(u) ==
  /\ listChannel[u] = "joining"
  /\ listChannel' = [listChannel EXCEPT ![u] = "joined"]
  /\ UNCHANGED <<storeVars, syncVars, formVars, opReq, toast, dirVars, lastReact,
                 peerVars, auth, location, effects, listVars>>

\* the handler of the list channel: fetchConversations()
OnListChange(u) ==
  /\ listInbox[u] > 0
  /\ Len(listFetch[u]) < MaxFetch
  /\ listInbox' = [listInbox EXCEPT ![u] = @ - 1]
  /\ listFetch' = [listFetch EXCEPT ![u] = Append(@, ListRequested)]
  /\ UNCHANGED <<storeVars, syncVars, formVars, opReq, toast, dirVars, lastReact,
                 peerVars, auth, location, effects, listChannel, convList>>

\* the store answers one of the client's fetchConversations queries
ServerSelectConversations(u, k, outcome) ==
  /\ k \in 1..Len(listFetch[u])
  /\ listFetch[u][k].stage = "requested"
  /\ listFetch' = [listFetch EXCEPT ![u][k] =
       IF outcome = "ok" THEN [stage |-> "data", data |-> SelectConversations(u)]
       ELSE [stage |-> "error", data |-> <<>>]]
  /\ UNCHANGED <<storeVars, syncVars, formVars, opReq, toast, dirVars, lastReact,
                 peerVars, auth, location, effects, listChannel, convList, listInbox>>

\* fetchConversations after its await, for whichever answer arrives next:
\* setConversations, or the toast of its catch
ListResponse(u, k) ==
  /\ k \in 1..Len(listFetch[u])
  /\ listFetch[u][k].stage /= "requested"
  /\ IF listFetch[u][k].stage = "data"
     THEN /\ convList' = [convList EXCEPT ![u] = listFetch[u][k].data]
          /\ UNCHANGED toast
     ELSE /\ toast' = [toast EXCEPT ![u] = "Failed to load conversations"]
          /\ UNCHANGED convList
  /\ listFetch' = [listFetch EXCEPT ![u] = RemoveAt(@, k)]
  /\ UNCHANGED <<storeVars, syncVars, formVars, opReq, dirVars, lastReact,
                 peerVars, auth, location, effects, listChannel, listInbox>>

\* handleSignIn: signInWithPassword succeeds, then navigate("/home")
SignIn(u) ==
  /\ ~effects[u]
  /\ location[u] = "/auth"
  /\ auth[u] = "none"
  /\ auth' = [auth EXCEPT ![u] = "user"]
  /\ location' = [location EXCEPT ![u] = "/home"]
  /\ effects' = [effects EXCEPT ![u] = TRUE]
  /\ UNCHANGED <<storeVars, syncVars, formVars, opReq, toast, dirVars, lastReact,
                 peerVars, listChannel, listVars>>

\* handleSignOut: signOut succeeds, then navigate("/")
SignOut(u) ==
  /\ ~effects[u]
  /\ location[u] = "/home"
  /\ auth[u] = "user"
  /\ auth' = [auth EXCEPT ![u] = "none"]
  /\ location' = [location EXCEPT ![u] = "/"]
  /\ effects' = [effects EXCEPT ![u] = TRUE]
  /\ UNCHANGED <<storeVars, syncVars, formVars, opReq, toast, dirVars, lastReact,
                 peerVars, listChannel, listVars>>

\* the back button of the chat header, navigate("/conversations"), taken
\* between two handlers: the cleanup of the mount effect removes both
\* channels, and the state of the component goes with it
Unmount(c) ==
  /\ route[c] /= NULL
  /\ sendReq[c] = Idle /\ opReq[c] = NoOp /\ ~typingTimeout[c]
  /\ route' = [route EXCEPT ![c] = NULL]
  /\ channel' = [channel EXCEPT ![c] = "none"]
  /\ inbox' = [inbox EXCEPT ![c] = <<>>]
  /\ fetchReq' = [fetchReq EXCEPT ![c] = NoFetch]
  /\ messages' = [messages EXCEPT ![c] = <<>>]
  /\ newMessage' = [newMessage EXCEPT ![c] = <<>>]
  /\ isSending' = [isSending EXCEPT ![c] = FALSE]
  /\ editingMessageId' = [editingMessageId EXCEPT ![c] = NULL]
  /\ replyingTo' = [replyingTo EXCEPT ![c] = NULL]
  /\ typingChannel' = [typingChannel EXCEPT ![c] = "none"]
  /\ typingInbox' = [typingInbox EXCEPT ![c] = 0]
  /\ typingFetch' = [typingFetch EXCEPT ![c] = <<>>]
  /\ typingUsers' = [typingUsers EXCEPT ![c] = {}]
  /\ location' = [location EXCEPT ![c] = "/conversations"]
  /\ effects' = [effects EXCEPT ![c] = TRUE]
  /\ UNCHANGED <<storeVars, typingTimeout, sendReq, opReq, toast, dirVars,
                 lastReact, auth, listChannel, listVars>>

\* ------------------------------------------------------- specifications
\* no chat page mounted, nothing in flight, over the given tables
InitStore(convs, rows, now) ==
  /\ conversations = convs
  /\ messagesTable = rows
  /\ typingTable = {}
  /\ clock = now

\* the chat page's handlers and the other components at rest
InitAtRest ==
  /\ newMessage = [c \in Clients |-> <<>>]
  /\ isSending = [c \in Clients |-> FALSE]
  /\ editingMessageId = [c \in Clients |-> NULL]
  /\ replyingTo = [c \in Clients |-> NULL]
  /\ typingTimeout = [c \in Clients |-> FALSE]
  /\ sendReq = [c \in Clients |-> Idle]
  /\ opReq = [c \in Clients |-> NoOp]
  /\ toast = [u \in Users |-> ""]
  /\ startReq = [u \in Users |-> NoStart]
  /\ navigated = [u \in Users |-> NULL]
  /\ lastReact = [id \in 1..MaxMsgs |-> NoReact]
  /\ typingChannel = [c \in Clients |-> "none"]
  /\ typingInbox = [c \in Clients |-> 0]
  /\ typingFetch = [c \in Clients |-> <<>>]
  /\ typingUsers = [c \in Clients |-> {}]
  /\ effects = [c \in Clients |-> FALSE]
  /\ listInbox = [c \in Clients |-> 0]
  /\ presence = {}
  /\ presChannel = [c \in Clients |-> "none"]
  /\ presInbox = [c \in Clients |-> <<>>]
  /\ onlineUsers = [c \in Clients |-> {}]
  /\ listFetch = [c \in Clients |-> <<>>]

InitIdle(convs, rows, now) ==
  /\ InitStore(convs, rows, now)
  /\ route = [c \in Clients |-> NULL]
  /\ channel = [c \in Clients |-> "none"]
  /\ inbox = [c \in Clients |-> <<>>]
  /\ fetchReq = [c \in Clients |-> NoFetch]
  /\ messages = [c \in Clients |-> <<>>]
  /\ InitAtRest

\* ... by users who are signed in and on the Conversations page with
\* their list loaded, whose list subscription the store has yet to accept
InitWith(convs, rows, now) ==
  /\ InitIdle(convs, rows, now)
  /\ auth = [c \in Clients |-> "user"]
  /\ location = [c \in Clients |-> "/conversations"]
  /\ listChannel = [c \in Clients |-> "joining"]
  /\ convList = [c \in Clients |-> SelectConversations(c)]

\* a fresh deployment: empty tables
Init == InitWith(<<>>, <<>>, 1)

\* the conversation of A and B, whose last message was written at `at`
ConversationAB(at) ==
  <<[participant1_id |-> "A", participant2_id |-> "B", last_message_at |-> at]>>

\* a stored message of that conversation as its insert left it
LoadedRow(id, sender, content) ==
  [id |-> id, conversation_id |-> 1, sender_id |-> sender, content |-> content,
   message_type |-> "text", created_at |-> id + 1, is_read |-> FALSE, edited_at |-> NULL,
   parent_message_id |-> NULL, is_pinned |-> FALSE, reactions |-> <<>>,
   is_deleted |-> FALSE, deleted_at |-> NULL]

\* the deployment once A has started the chat with B
InitChat == InitWith(ConversationAB(1), <<>>, 2)

\* ... once A has sent "h" and left the page
InitLoaded == InitWith(ConversationAB(2), <<LoadedRow(1, "A", <<"h">>)>>, 3)

\* ... once A has sent "h", B has sent "i" and both have left the page
InitTwo ==
  InitWith(ConversationAB(3), <<LoadedRow(1, "A", <<"h">>), LoadedRow(2, "B", <<"i">>)>>, 4)

\* ... with the reactions column of A's message as JSONB admits it, and
\* the message deleted or not
RawReactions ==
  {<<>>,
   <<[emoji |-> "up", user_id |-> "B", count |-> 1]>>,
   <<[emoji |-> "up", user_id |-> "B", count |-> 0]>>,
   <<[emoji |-> "", user_id |-> "", count |-> 2]>>,
   NotArray}

InitLoad ==
  \E raw \in RawReactions, deleted \in BOOLEAN :
    InitWith(ConversationAB(2),
             <<[LoadedRow(1, "A", <<"h">>) EXCEPT !.reactions = raw,
                                                  !.is_deleted = deleted,
                                                  !.deleted_at = IF deleted THEN 2 ELSE NULL]>>,
             3)

\* ---- the initial load of A and B, answered or failed, while A sends
NextLoad ==
  \/ \E c \in Clients :
       \/ Mount(c, 1)
       \/ \E outcome \in {"ok", "error"} : ServerFetch(c, outcome)
       \/ FetchResponse(c)
  \/ ServerJoin("A")
  \/ Deliver("A")
  \/ OnChange("A", <<"i">>, "ok")
  \/ HandleSendMessage("A", "ok")
  \/ SendResume("A", "ok")
  \/ SendFinish("A")

SpecLoad == InitLoad /\ [][NextLoad]_vars

\* ---- the user list: any users start chats; the lookup is answered
NextDirectory ==
  \E u \in Users :
    \/ \E other \in Users : StartChatLookup(u, other, "ok")
    \/ \E outcome \in {"ok", "error"} : StartChatInsert(u, outcome)

SpecDirectory == Init /\ [][NextDirectory]_vars

\* ---- the chat page of A and of B; A sends and deletes, every request succeeds
NextSync ==
  \/ \E c \in Clients :
       \/ Mount(c, 1)
       \/ ServerJoin(c)
       \/ ServerFetch(c, "ok")
       \/ FetchResponse(c)
       \/ Deliver(c)
  \/ OnChange("A", <<"h">>, "ok")
  \/ TypingTimerFires("A", "ok")
  \/ HandleSendMessage("A", "ok")
  \/ SendResume("A", "ok")
  \/ SendFinish("A")
  \/ \E id \in 1..MaxMsgs : HandleDeleteMessage("A", id, "ok")
  \/ DeleteResume("A")

SpecSync == InitChat /\ [][NextSync]_vars

\* ---- the chat page of A alone: every handler of the form, requests may fail
NextForm ==
  \/ Mount("A", 1)
  \/ \E outcome \in {"ok", "error"} : ServerFetch("A", outcome)
  \/ FetchResponse("A")
  \/ \E text \in Texts : OnChange("A", text, "ok")
  \/ TypingTimerFires("A", "ok")
  \/ \E outcome \in Outcomes :
       \/ HandleSendMessage("A", outcome)
       \/ SendResume("A", outcome)
  \/ SendFinish("A")
  \/ \E id \in 1..MaxMsgs :
       \/ HandleEditMessage("A", id)
       \/ HandleReply("A", id)
  \/ CancelEdit("A")
  \/ CancelReply("A")

SpecForm == InitLoaded /\ [][NextForm]_vars

\* ---- the chat page of A alone: every mutation; the send or edit may
\* fail, the delete, pin and reaction requests do fail
NextFail ==
  \/ Mount("A", 1)
  \/ ServerFetch("A", "ok")
  \/ FetchResponse("A")
  \/ OnChange("A", <<"i">>, "ok")
  \/ TypingTimerFires("A", "ok")
  \/ \E id \in 1..MaxMsgs : HandleEditMessage("A", id)
  \/ \E outcome \in Outcomes : HandleSendMessage("A", outcome)
  \/ \E outcome \in {"error", "throw"}, id \in 1..MaxMsgs :
       \/ HandleDeleteMessage("A", id, outcome)
       \/ HandlePinMessage("A", id, outcome)
       \/ \E emoji \in Emojis : HandleReaction("A", id, emoji, outcome)
  \/ SendResume("A", "ok")
  \/ SendFinish("A")
  \/ DeleteResume("A")
  \/ PinResume("A")
  \/ ReactResume("A")

SpecFail == InitLoaded /\ [][NextFail]_vars

\* ---- A types one character and stops; who is typing, as A and B see it
NextTyping ==
  \/ \E c \in Clients :
       \/ Mount(c, 1)
       \/ ServerJoinTyping(c)
       \/ OnTypingChange(c)
       \/ \E k \in 1..MaxFetch :
            \/ ServerSelectTyping(c, k, "ok")
            \/ TypingResponse(c, k)
  \/ newMessage["A"] = <<>> /\ OnChange("A", <<"h">>, "ok")
  \/ TypingTimerFires("A", "ok")

FairTyping ==
  /\ WF_vars(TypingTimerFires("A", "ok"))
  /\ \A c \in Clients :
       /\ WF_vars(OnTypingChange(c))
       /\ \A k \in 1..MaxFetch :
            WF_vars(ServerSelectTyping(c, k, "ok")) /\ WF_vars(TypingResponse(c, k))

SpecTyping == InitChat /\ [][NextTyping]_vars /\ FairTyping

\* ---- A and B type, pause and send in their conversation
NextKeys ==
  \E c \in Clients :
    \/ Mount(c, 1)
    \/ OnChange(c, <<"h">>, "ok")
    \/ TypingTimerFires(c, "ok")
    \/ HandleSendMessage(c, "ok")
    \/ \E outcome \in {"ok", "error"} : SendResume(c, outcome)
    \/ SendFinish(c)

SpecKeys == InitChat /\ [][NextKeys]_vars

\* ---- A has a conversation with B and one with C, who has written to A;
\* A and B enter and leave their conversations and send
InitRead ==
  InitWith(<<[participant1_id |-> "A", participant2_id |-> "B", last_message_at |-> 1],
             [participant1_id |-> "C", participant2_id |-> "A", last_message_at |-> 2]>>,
           <<[LoadedRow(1, "C", <<"i">>) EXCEPT !.conversation_id = 2]>>,
           3)

NextRead ==
  \/ Mount("A", 1)
  \/ Mount("A", 2)
  \/ Mount("B", 1)
  \/ \E c \in Clients :
       \/ Unmount(c)
       \/ PageEffects(c)
       \/ ServerJoin(c)
       \/ ServerFetch(c, "ok")
       \/ FetchResponse(c)
       \/ Deliver(c)
       \/ OnChange(c, <<"h">>, "ok")
       \/ TypingTimerFires(c, "ok")
       \/ HandleSendMessage(c, "ok")
       \/ SendResume(c, "ok")
       \/ SendFinish(c)

SpecRead == InitRead /\ [][NextRead]_vars

\* ---- the realtime handlers of A's chat page, applied to any local
\* sequence and any event of the channel
MergeRows ==
  {[LoadedRow(id, "B", <<"h">>) EXCEPT !.is_deleted = deleted, !.is_pinned = pinned] :
     id \in 1..MaxMsgs, deleted \in BOOLEAN, pinned \in BOOLEAN}

MergeEvents ==
  {[type |-> "INSERT", new |-> row, op |-> "send"] : row \in MergeRows}
    \cup {[type |-> "UPDATE", new |-> row, op |-> "pin"] : row \in MergeRows}

InitMerge ==
  /\ InitStore(ConversationAB(1), <<>>, 2)
  /\ InitAtRest
  /\ auth = [c \in Clients |-> "user"]
  /\ location = [c \in Clients |-> "/chat"]
  /\ listChannel = [c \in Clients |-> "joined"]
  /\ convList = [c \in Clients |-> <<>>]
  /\ route = [c \in Clients |-> 1]
  /\ channel = [c \in Clients |-> "joined"]
  /\ fetchReq = [c \in Clients |-> NoFetch]
  /\ \E current \in SeqsUpTo(MergeRows, 2), ev \in MergeEvents :
       /\ messages = [c \in Clients |-> IF c = "A" THEN current ELSE <<>>]
       /\ inbox = [c \in Clients |-> IF c = "A" THEN <<ev>> ELSE <<>>]

NextMerge == Deliver("A")

SpecMerge == InitMerge /\ [][NextMerge]_vars

\* ---- pin toggles of A and B on the stored message
NextPin ==
  \E c \in Clients :
    \/ Mount(c, 1)
    \/ ServerJoin(c)
    \/ ServerFetch(c, "ok")
    \/ FetchResponse(c)
    \/ Deliver(c)
    \/ \E id \in 1..MaxMsgs : HandlePinMessage(c, id, "ok")
    \/ PinResume(c)

SpecPin == InitLoaded /\ [][NextPin]_vars

\* ---- A and B open the application on its landing page while useAuth()
\* is loading, sign in and out and move between the pages, the chat page
\* of their conversation included
InitNav ==
  /\ InitIdle(ConversationAB(1), <<>>, 2)
  /\ auth = [c \in Clients |-> "loading"]
  /\ location = [c \in Clients |-> "/"]
  /\ listChannel = [c \in Clients |-> "none"]
  /\ convList = [c \in Clients |-> <<>>]

NextNav ==
  \E c \in Clients :
    \/ \E signedIn \in BOOLEAN : AuthResolved(c, signedIn)
    \/ \E page \in Pages : Visit(c, page) \/ Open(c, page)
    \/ PageEffects(c)
    \/ SignIn(c)
    \/ SignOut(c)
    \/ Mount(c, 1)
    \/ ServerJoin(c)
    \/ ServerJoinTyping(c)
    \/ ServerFetch(c, "ok")
    \/ FetchResponse(c)
    \/ Unmount(c)

SpecNav == InitNav /\ [][NextNav]_vars

\* ---- A opens its Conversations page; once its list channel is joined, B
\* and C start conversations with A
InitList ==
  /\ InitIdle(<<>>, <<>>, 1)
  /\ auth = [c \in Clients |-> IF c = "A" THEN "loading" ELSE "user"]
  /\ location = [c \in Clients |-> IF c = "A" THEN "/conversations" ELSE "/home"]
  /\ listChannel = [c \in Clients |-> "none"]
  /\ convList = [c \in Clients |-> <<>>]

NextList ==
  \/ AuthResolved("A", TRUE)
  \/ PageEffects("A")
  \/ ServerJoinList("A")
  \/ \E u \in {"B", "C"} :
       \/ listChannel["A"] = "joined" /\ StartChatLookup(u, "A", "ok")
       \/ StartChatInsert(u, "ok")
  \/ OnListChange("A")
  \/ \E k \in 1..MaxFetch :
       \/ ServerSelectConversations("A", k, "ok")
       \/ ListResponse("A", k)

SpecList == InitList /\ [][NextList]_vars

\* ---- A and B enter the chat; A edits, deletes, pins, reacts and sends
NextFrame ==
  \/ \E c \in Clients : Mount(c, 1)
  \/ ServerFetch("A", "ok")
  \/ FetchResponse("A")
  \/ OnChange("A", <<"i">>, "ok")
  \/ HandleSendMessage("A", "ok")
  \/ SendResume("A", "ok")
  \/ SendFinish("A")
  \/ \E id \in 1..MaxMsgs :
       \/ HandleEditMessage("A", id)
       \/ HandleDeleteMessage("A", id, "ok")
       \/ HandlePinMessage("A", id, "ok")
       \/ \E emoji \in Emojis : HandleReaction("A", id, emoji, "ok")
  \/ DeleteResume("A")
  \/ PinResume("A")
  \/ ReactResume("A")

SpecFrame == InitLoaded /\ [][NextFrame]_vars

\* ---- the form of A, with a backend that answers every request
FairRelease ==
  /\ WF_vars(\E outcome \in Outcomes : SendResume("A", outcome))
  /\ WF_vars(SendFinish("A"))

SpecRelease == InitLoaded /\ [][NextForm]_vars /\ FairRelease

\* ---- A and B show and hide the list of online users
NextPresence ==
  \E c \in Clients :
    \/ PresenceSubscribe(c)
    \/ PresenceJoined(c)
    \/ PresenceTrack(c)
    \/ PresenceSync(c)
    \/ PresenceUnsubscribe(c)

SpecPresence == InitChat /\ [][NextPresence]_vars

\* ---- reactions of A and B on the stored messages
NextReact ==
  \E c \in Clients :
    \/ Mount(c, 1)
    \/ ServerJoin(c)
    \/ ServerFetch(c, "ok")
    \/ FetchResponse(c)
    \/ Deliver(c)
    \/ \E id \in 1..MaxMsgs, emoji \in Emojis, outcome \in {"ok", "error"} :
         HandleReaction(c, id, emoji, outcome)
    \/ ReactResume(c)

SpecReact == InitLoaded /\ [][NextReact]_vars

\* ---- A edits its message; A and B watch
NextEdit ==
  \/ \E c \in Clients :
       \/ Mount(c, 1)
       \/ ServerJoin(c)
       \/ ServerFetch(c, "ok")
       \/ FetchResponse(c)
       \/ Deliver(c)
  \/ \E id \in 1..MaxMsgs : HandleEditMessage("A", id)
  \/ \E text \in Texts : OnChange("A", text, "ok")
  \/ TypingTimerFires("A", "ok")
  \/ \E outcome \in {"ok", "error"} : HandleSendMessage("A", outcome)
  \/ SendResume("A", "ok")
  \/ SendFinish("A")
  \/ CancelEdit("A")

SpecEdit == InitTwo /\ [][NextEdit]_vars

\* ---- A sends; A and B watch; every realtime event is handled in the end
NextSend ==
  \/ \E c \in Clients :
       \/ Mount(c, 1)
       \/ ServerJoin(c)
       \/ ServerFetch(c, "ok")
       \/ FetchResponse(c)
       \/ Deliver(c)
  \/ OnChange("A", <<"h">>, "ok")
  \/ TypingTimerFires("A", "ok")
  \/ \E outcome \in {"ok", "error"} : HandleSendMessage("A", outcome)
  \/ SendResume("A", "ok")
  \/ SendFinish("A")

SpecSend == InitChat /\ [][NextSend]_vars /\ \A c \in Clients : WF_vars(Deliver(c))

StartChat ==
  \E u \in Users, other \in Users, outcome \in Outcomes :
    \/ StartChatLookup(u, other, outcome)
    \/ StartChatInsert(u, outcome)

Sync ==
  \E c \in Clients :
    \/ \E conv \in 1..MaxConvs : Mount(c, conv)
    \/ ServerJoin(c)
    \/ \E outcome \in {"ok", "error"} : ServerFetch(c, outcome)
    \/ FetchResponse(c)
    \/ Deliver(c)

Form ==
  \E c \in Clients, outcome \in Outcomes :
    \/ \E text \in Texts : OnChange(c, text, outcome)
    \/ TypingTimerFires(c, outcome)
    \/ HandleSendMessage(c, outcome)
    \/ SendResume(c, outcome)
    \/ SendFinish(c)
    \/ \E id \in 1..MaxMsgs :
         \/ HandleEditMessage(c, id)
         \/ HandleReply(c, id)
         \/ HandleDeleteMessage(c, id, outcome)
         \/ HandlePinMessage(c, id, outcome)
         \/ \E emoji \in Emojis : HandleReaction(c, id, emoji, outcome)
    \/ CancelEdit(c)
    \/ CancelReply(c)
    \/ DeleteResume(c)
    \/ PinResume(c)
    \/ ReactResume(c)

Presence ==
  \E c \in Clients :
    \/ PresenceSubscribe(c)
    \/ PresenceJoined(c)
    \/ PresenceTrack(c)
    \/ PresenceSync(c)
    \/ PresenceUnsubscribe(c)

Navigate ==
  \E c \in Clients :
    \/ \E signedIn \in BOOLEAN : AuthResolved(c, signedIn)
    \/ \E page \in Pages : Visit(c, page) \/ Open(c, page)
    \/ PageEffects(c)
    \/ SignIn(c)
    \/ SignOut(c)
    \/ Unmount(c)

Next == StartChat \/ Sync \/ Form \/ Navigate \/ Presence

Spec == Init /\ [][Next]_vars

\* ================================================================ claims
IsAscending(s) == \A i \in 1..(Len(s) - 1) : s[i].created_at <= s[i + 1].created_at

HasDeleted(s) == \E i \in 1..Len(s) : s[i].is_deleted

\* C1: on every client, once the UPDATE event that sets a message's
\* soft-delete flag has been handled, no entry of the local sequence has
\* is_deleted = true (stated for the clients with no delete of their own
\* waiting for its answer, whose local removal is still to come).
C1_DeletedLeavesLocalSequence ==
  \A c \in Clients : opReq[c].op /= "delete" => ~HasDeleted(messages[c])

\* C2: in every reachable state the local message sequence of every client
\* is ascending by created_at.
C2_LocalSequenceAscending == \A c \in Clients : IsAscending(messages[c])

ErrorToasts ==
  {"Failed to send message", "Failed to delete message", "Failed to pin message",
   "Failed to load messages", "Failed to start conversation"}

KeepsLocalState(c) ==
  /\ messages'[c] = messages[c]
  /\ newMessage'[c] = newMessage[c]
  /\ replyingTo'[c] = replyingTo[c]
  /\ editingMessageId'[c] = editingMessageId[c]

\* C3: when the request of a send, an edit, a pin toggle or a reaction
\* toggle has failed, the handler's continuation raises an error
\* notification and leaves the message sequence, the draft, the reply
\* target and edit mode as they were; a delete whose request came back with
\* an error still removes the message locally.
C3_FailedMutationNotifiesAndKeepsState ==
  [][\A c \in Clients :
       /\ (/\ sendReq[c].stage \in {"update", "insert"}
           /\ sendReq[c].outcome /= "ok"
           /\ sendReq'[c] /= sendReq[c])
          => (toast'[c] \in ErrorToasts /\ KeepsLocalState(c))
       /\ (/\ opReq[c].op \in {"pin", "react"}
           /\ opReq[c].outcome /= "ok"
           /\ opReq'[c].op = "idle")
          => (toast'[c] \in ErrorToasts /\ KeepsLocalState(c))
       /\ (/\ opReq[c].op = "delete"
           /\ opReq[c].outcome = "error"
           /\ opReq'[c].op = "idle")
          => \A i \in 1..Len(messages'[c]) : messages'[c][i].id /= opReq[c].id]_vars

\* C4: a call of handleSendMessage while isSending is set issues no insert
\* and no update and changes no state.
C4_SubmissionRejectedWhileSending ==
  [][\A c \in Clients :
       (isSending[c] /\ \E outcome \in Outcomes : HandleSendMessage(c, outcome))
       => UNCHANGED vars]_vars

\* a submission is in flight and the draft is still there to submit again
C4_Witness ==
  \E c \in Clients : route[c] /= NULL /\ isSending[c] /\ Trim(newMessage[c]) /= <<>>

\* C5: submitting a draft that is empty after trim changes nothing, in
\* normal and in edit mode: no insert, no update, no typing-row delete, and
\* the draft, reply target, edit mode, isSending and messages stay.
C5_BlankSubmissionIsNoOp ==
  [][\A c \in Clients :
       (Trim(newMessage[c]) = <<>> /\ \E outcome \in Outcomes : HandleSendMessage(c, outcome))
       => UNCHANGED vars]_vars

\* a draft of blanks only, in edit mode, with no submission in flight
C5_Witness ==
  \E c \in Clients :
    /\ route[c] /= NULL
    /\ ~isSending[c]
    /\ editingMessageId[c] /= NULL
    /\ newMessage[c] /= <<>>
    /\ Trim(newMessage[c]) = <<>>

StoredIds == 1..Len(messagesTable)

\* C6: in every reachable state the stored reaction collection of every
\* message holds at most one record per (emoji, user) pair, whatever the
\* interleaving of toggles and however stale the copy they start from.
C6_OneReactionPerEmojiAndUser ==
  \A id \in StoredIds :
    LET r == messagesTable[id].reactions
    IN \A i, j \in 1..Len(r) :
         (r[i].emoji = r[j].emoji /\ r[i].user_id = r[j].user_id) => i = j

\* a toggle computed from a stale copy has been stored next to another record
C6_Witness ==
  \E id \in StoredIds :
    /\ Len(messagesTable[id].reactions) >= 2
    /\ lastReact[id].kind = "add"
    /\ ~lastReact[id].fresh

\* C7 as stated: after a user's react and then unreact of the same emoji on
\* the same message, with no other write to the message in between, the
\* stored collection equals the one from before the react.
C7_ReactThenUnreactRestores ==
  \A id \in StoredIds :
    lastReact[id].undoes => messagesTable[id].reactions = lastReact[id].first

\* C7 amended: the same, when each of the two toggles was computed from a
\* local copy whose reactions were the stored collection at that time.
C7_FreshReactThenUnreactRestores ==
  \A id \in StoredIds :
    (lastReact[id].undoes /\ lastReact[id].firstFresh /\ lastReact[id].fresh)
    => messagesTable[id].reactions = lastReact[id].first

\* a react and unreact from current copies, over another user's reaction
C7_Witness ==
  \E id \in StoredIds :
    /\ lastReact[id].undoes
    /\ lastReact[id].firstFresh
    /\ lastReact[id].fresh
    /\ lastReact[id].first /= <<>>
    /\ messagesTable[id].reactions = lastReact[id].first

\* the step in which the store commits the edit that client c submitted
EditSubmitted(c) ==
  sendReq[c].stage = "idle" /\ sendReq'[c] = [stage |-> "update", outcome |-> "ok"]

\* the step in which client c handles an event of the given kind
Processed(c, op) ==
  inbox[c] /= <<>> /\ Head(inbox[c]).op = op /\ inbox'[c] = Tail(inbox[c])

Subscribed(c, conv) == channel[c] = "joined" /\ route[c] = conv

\* C8: a committed edit gives the stored message the submitted content and
\* a non-null edited_at, keeps its created_at, and sends the row to every
\* subscribed client; the client that handles this UPDATE event keeps the
\* length of its sequence and the message at every index, and the edited
\* message's entry becomes the edited row with its original created_at.
C8_EditKeepsPositionAndCreation ==
  [][\A c \in Clients :
       /\ EditSubmitted(c) =>
            LET id == editingMessageId[c]
                row == messagesTable'[id]
            IN /\ Len(messagesTable') = Len(messagesTable)
               /\ row.content = newMessage[c]
               /\ row.edited_at /= NULL
               /\ row.created_at = messagesTable[id].created_at
               /\ row.id = id
               /\ \A d \in Clients :
                    Subscribed(d, row.conversation_id)
                    => inbox'[d] = Append(inbox[d], [type |-> "UPDATE", new |-> row, op |-> "edit"])
       /\ Processed(c, "edit") =>
            LET updated == Head(inbox[c]).new
            IN /\ Len(messages'[c]) = Len(messages[c])
               /\ \A i \in 1..Len(messages[c]) :
                    /\ messages'[c][i].id = messages[c][i].id
                    /\ messages'[c][i].created_at = messages[c][i].created_at
                    /\ IF messages[c][i].id = updated.id
                       THEN /\ messages'[c][i].content = updated.content
                            /\ messages'[c][i].edited_at /= NULL
                       ELSE messages'[c][i] = messages[c][i]]_vars

\* a client holds, first of two entries, another user's message that it saw
\* edited to a new content
C8_Witness ==
  \E c \in Clients :
    /\ Len(messages[c]) = 2
    /\ messages[c][1].sender_id /= c
    /\ messages[c][1].edited_at /= NULL
    /\ messages[c][1].content = <<"i">>
    /\ messages[c][2].edited_at = NULL
    /\ inbox[c] = <<>>

\* C9: when the lookup of handleStartChat ran with at least one conversation
\* of the pair stored, in either order, the handler inserts no conversation.
C9_ExistingConversationReused ==
  [][\A u \in Users :
       (/\ startReq[u].stage = "insert"
        /\ startReq[u].existed
        /\ startReq'[u] = NoStart)
       => conversations' = conversations]_vars

\* the step in which the store commits the message that client c sent
SendCommitted(c) ==
  sendReq[c].stage = "idle" /\ sendReq'[c] = [stage |-> "insert", outcome |-> "ok"]

HasInsertEvent(c, id) ==
  \E k \in 1..Len(inbox[c]) : inbox[c][k].type = "INSERT" /\ inbox[c][k].new.id = id

\* C10: a committed send stores one message with the draft as content and
\* type "text", sets the conversation's last_message_at to the message's
\* created_at and sends one INSERT event to every subscribed client; every
\* such event is eventually handled, and the client that handles it gains
\* exactly that one entry at the end of its sequence.
C10_SendReachesStoreAndSubscribers ==
  /\ [][\A c \in Clients :
          /\ SendCommitted(c) =>
               LET row == messagesTable'[Len(messagesTable')]
               IN /\ Len(messagesTable') = Len(messagesTable) + 1
                  /\ row.content = newMessage[c]
                  /\ row.message_type = "text"
                  /\ row.sender_id = c
                  /\ conversations'[route[c]].last_message_at = row.created_at
                  /\ \A d \in Clients :
                       inbox'[d] = IF Subscribed(d, route[c])
                                   THEN Append(inbox[d], [type |-> "INSERT", new |-> row, op |-> "send"])
                                   ELSE inbox[d]
          /\ Processed(c, "send") =>
               messages'[c] = Append(messages[c], Head(inbox[c]).new)]_vars
  /\ \A c \in Clients, id \in 1..MaxMsgs :
       HasInsertEvent(c, id) ~> ~HasInsertEvent(c, id)

\* both clients have handled the INSERT event of a sent message and hold it
\* once, and the conversation carries the message's created_at
C10_Witness ==
  \E id \in StoredIds :
    /\ conversations[1].last_message_at = messagesTable[id].created_at
    /\ \A c \in Clients :
         /\ inbox[c] = <<>>
         /\ Cardinality({i \in 1..Len(messages[c]) : messages[c][i] = messagesTable[id]}) = 1
         /\ messagesTable[id].message_type = "text"
         /\ messagesTable[id].sender_id = "A"

\* the pinned strip of the chat page: the pinned entries of the sequence
PinnedOf(s) ==
  LET IsPinned(m) == m.is_pinned
  IN SelectSeq(s, IsPinned)

PinnedStrip(c) == PinnedOf(messages[c])

\* a step of client c's handlePinMessage: its request or its continuation
PinStep(c) == opReq'[c] /= opReq[c] /\ (opReq[c].op = "pin" \/ opReq'[c].op = "pin")

PinCommitted(c) ==
  opReq[c].op = "idle" /\ opReq'[c].op = "pin" /\ opReq'[c].outcome = "ok"

\* C20: every committed pin toggle leaves the stored is_pinned of its
\* message the negation of what was stored just before.
C20_PinToggleFlipsStoredFlag ==
  [][\A c \in Clients :
       PinCommitted(c) =>
         messagesTable'[opReq'[c].id].is_pinned = ~messagesTable[opReq'[c].id].is_pinned]_vars

\* no peer of user u, with the conversation open, lists u as typing
NoPeerSeesTyping(conv, u) ==
  \A d \in Clients \ {u} : route[d] = conv => u \notin typingUsers[d]

\* C12: a typing row of a user who types no further is deleted when the
\* quiet period's timer fires, and from some moment on the row is gone and
\* no peer with the conversation open lists the user as typing.
C12_TypingRowExpiresEverywhere ==
  \A u \in Clients :
    HasTypingRow(1, u) ~> [](~HasTypingRow(1, u) /\ NoPeerSeesTyping(1, u))

\* the step in which the store answers the initial load of client c
LoadAnswered(c) == fetchReq[c].stage = "requested" /\ fetchReq'[c].stage = "data"

\* C13: when the handler of a committed delete goes on after its await,
\* the user's local sequence holds the message no more; the store keeps the
\* soft-delete flag once set; and every initial load that the store answers
\* returns no message whose flag is set.
C13_DeletedStaysOutOfLoads ==
  [][/\ \A c \in Clients :
          /\ (opReq[c].op = "delete" /\ opReq[c].outcome = "ok" /\ opReq'[c].op = "idle")
             => opReq[c].id \notin {messages'[c][i].id : i \in 1..Len(messages'[c])}
          /\ LoadAnswered(c)
             => \A k \in 1..Len(fetchReq'[c].data) :
                  ~messagesTable[fetchReq'[c].data[k].id].is_deleted
     /\ \A id \in StoredIds : messagesTable[id].is_deleted => messagesTable'[id].is_deleted]_vars

\* A's delete of message 1 is over, and B's load, answered afterwards,
\* brings message 2 alone
C13_Witness ==
  /\ Len(messagesTable) = 2
  /\ messagesTable[1].is_deleted
  /\ opReq["A"].op = "idle"
  /\ toast["A"] = "Message deleted"
  /\ fetchReq["B"].stage = "data"
  /\ Len(fetchReq["B"].data) = 1
  /\ fetchReq["B"].data[1].id = 2

\* the ids of the stored messages a load of the conversation is to return
ActiveIds(conv) ==
  {id \in StoredIds : messagesTable[id].conversation_id = conv /\ ~messagesTable[id].is_deleted}

\* reaction entry r as the load leaves it
Coerced(r, raw) ==
  /\ r.emoji = raw.emoji
  /\ r.user_id = raw.user_id
  /\ r.count = IF raw.count = 0 THEN 1 ELSE raw.count

\* C14: the answer of an initial load holds exactly the conversation's
\* stored messages with the soft-delete flag unset, each once, ascending by
\* created_at; when the answer arrives it replaces the local sequence, every
\* reaction entry coerced (count 1 when missing) and a reactions value that
\* is not an array made empty; a failed load leaves the sequence as it was.
C14_LoadReplacesWithActiveRows ==
  [][\A c \in Clients :
       /\ LoadAnswered(c) =>
            LET data == fetchReq'[c].data
            IN /\ IsAscending(data)
               /\ {data[k].id : k \in 1..Len(data)} = ActiveIds(route[c])
               /\ Len(data) = Cardinality(ActiveIds(route[c]))
               /\ \A k \in 1..Len(data) : data[k] = messagesTable[data[k].id]
       /\ (fetchReq[c].stage = "data" /\ fetchReq'[c].stage = "idle") =>
            LET data == fetchReq[c].data
            IN /\ Len(messages'[c]) = Len(data)
               /\ \A k \in 1..Len(data) :
                    LET m == messages'[c][k]
                        raw == data[k].reactions
                    IN /\ [m EXCEPT !.reactions = raw] = data[k]
                       /\ IF IsArray(raw)
                          THEN /\ Len(m.reactions) = Len(raw)
                               /\ \A j \in 1..Len(raw) : Coerced(m.reactions[j], raw[j])
                          ELSE m.reactions = <<>>
       /\ (fetchReq[c].stage = "error" /\ fetchReq'[c].stage = "idle") =>
            /\ messages'[c] = messages[c]
            /\ toast'[c] = "Failed to load messages"]_vars

\* B has loaded both messages, the first with its reaction's missing count
\* made 1, while A, whose load failed, keeps the message it received
C14_Witness ==
  /\ Len(messages["B"]) = 2
  /\ messagesTable[1].reactions = <<[emoji |-> "up", user_id |-> "B", count |-> 0]>>
  /\ messages["B"][1].reactions = <<[emoji |-> "up", user_id |-> "B", count |-> 1]>>
  /\ fetchReq["B"].stage = "idle"
  /\ toast["A"] = "Failed to load messages"
  /\ Len(messages["A"]) = 1
  /\ fetchReq["A"].stage = "idle"

\* C15: no realtime channel outlives the page that subscribed it: a client
\* that does not show the Conversations page holds no conversations-changes
\* channel, and a client that shows no chat holds neither the messages nor
\* the typing channel of one.
C15_NoChannelOutlivesItsPage ==
  \A c \in Clients :
    /\ location[c] /= "/conversations" => listChannel[c] = "none"
    /\ route[c] = NULL => channel[c] = "none" /\ typingChannel[c] = "none"

\* C16 as stated: once the effects of the shown page ran with auth loading
\* finished, a visitor without a session is on the landing or the sign-in
\* page and a signed-in visitor is on neither of them.
C16_EveryPageGated ==
  \A c \in Clients :
    ~effects[c] =>
      /\ auth[c] = "none" => location[c] \in GuestPages
      /\ auth[c] = "user" => location[c] \notin GuestPages

PageAllowed(page, a) ==
  /\ a = "none" => page \in GuestPages \cup {"/help"}
  /\ a = "user" => page \notin GuestPages

\* C16, amended: the effects of a page move the visitor only when auth
\* loading has finished, a visitor without a session from a gated page
\* (home, settings, profile, conversations, chat) to /auth and a signed-in
\* visitor from the landing or the sign-in page to /home; when they end
\* without moving the visitor, a visitor without a session is on the
\* landing, the sign-in or the Help page, which has no gate, and a
\* signed-in visitor is on neither the landing nor the sign-in page.
C16_GatedPagesRedirect ==
  [][\A c \in Clients :
       /\ effects[c] /\ location'[c] /= location[c] =>
            \/ auth[c] = "none" /\ location[c] \in GatedPages /\ location'[c] = "/auth"
            \/ auth[c] = "user" /\ location[c] \in GuestPages /\ location'[c] = "/home"
       /\ effects[c] /\ ~effects'[c] /\ auth'[c] = auth[c] =>
            PageAllowed(location'[c], auth[c])]_vars

\* A stays on a gated page while auth is loading, B without a session has
\* been sent to the sign-in page
C16_Witness ==
  /\ auth["A"] = "loading" /\ location["A"] = "/profile" /\ ~effects["A"]
  /\ auth["B"] = "none" /\ location["B"] = "/auth" /\ ~effects["B"]

ReactionOf(u) == [emoji |-> "up", user_id |-> u, count |-> 1]

\* the step in which the store commits a reaction toggle of c on message id
ReactCommitted(c, id) ==
  /\ opReq[c].op = "idle"
  /\ opReq'[c].op = "react" /\ opReq'[c].outcome = "ok" /\ opReq'[c].id = id

\* C17: a committed reaction toggle stores the collection computed from the
\* writer's local copy alone, whatever the stored collection holds (the
\* copy's records without the writer's own record of the emoji when the copy
\* has one, else the copy's records followed by the writer's new record),
\* and no step of a toggle notifies anybody: a reaction stored by another
\* user since the copy was taken is lost silently.
C17_ToggleStoresFromLocalCopyOnly ==
  [][\A c \in Clients, id \in StoredIds :
       /\ ReactCommitted(c, id) =>
            LET copy == FindMessage(c, id).reactions
                emoji == lastReact'[id].emoji
                Own(r) == r.emoji = emoji /\ r.user_id = c
                Other(r) == ~Own(r)
            IN messagesTable'[id].reactions =
                 IF \E i \in 1..Len(copy) : Own(copy[i])
                 THEN SelectSeq(copy, Other)
                 ELSE Append(copy, [emoji |-> emoji, user_id |-> c, count |-> 1])
       /\ toast' = toast]_vars

\* A's reaction was stored, and B's toggle, computed from a copy without
\* it, left B's reaction alone in the store; both handlers have returned
\* and nobody was notified
C17_Witness ==
  /\ messagesTable[1].reactions = <<ReactionOf("B")>>
  /\ lastReact[1].kind = "add" /\ lastReact[1].user_id = "B"
  /\ lastReact[1].before = <<ReactionOf("A")>>
  /\ \A c \in Clients : opReq[c] = NoOp /\ toast[c] = ""

\* the step in which handleSendMessage of c accepts the submission
SubmissionAccepted(c) ==
  sendReq[c].stage = "idle" /\ sendReq'[c].stage \in {"update", "insert"}

\* C18: an accepted submission in edit mode issues one update and no
\* insert: when the store commits it, the content and edited_at of the
\* edit target's row change and nothing else in the table does; when the
\* request has resolved, the continuation clears edit mode and writes no
\* message. An accepted submission outside edit mode issues one insert and
\* no update: when the store commits it, one row is appended whose
\* parent_message_id is the reply target's id, or null without a reply
\* target, and the rows before it stay; its continuation writes no message.
\* A request the store does not commit changes no row.
C18_SubmissionUpdatesOrInserts ==
  [][\A c \in Clients :
       /\ (SubmissionAccepted(c) /\ editingMessageId[c] /= NULL) =>
            /\ sendReq'[c].stage = "update"
            /\ messagesTable' =
                 IF sendReq'[c].outcome = "ok"
                 THEN [messagesTable EXCEPT
                         ![editingMessageId[c]].content = newMessage[c],
                         ![editingMessageId[c]].edited_at = clock]
                 ELSE messagesTable
       /\ (SubmissionAccepted(c) /\ editingMessageId[c] = NULL) =>
            /\ sendReq'[c].stage = "insert"
            /\ IF sendReq'[c].outcome = "ok"
               THEN /\ Len(messagesTable') = Len(messagesTable) + 1
                    /\ SubSeq(messagesTable', 1, Len(messagesTable)) = messagesTable
                    /\ messagesTable'[Len(messagesTable')].parent_message_id = replyingTo[c]
                    /\ messagesTable'[Len(messagesTable')].content = newMessage[c]
                    /\ messagesTable'[Len(messagesTable')].sender_id = c
               ELSE messagesTable' = messagesTable
       /\ (sendReq[c].stage = "update" /\ sendReq'[c] /= sendReq[c]) =>
            /\ messagesTable' = messagesTable
            /\ sendReq[c].outcome /= "throw" => editingMessageId'[c] = NULL
       /\ (sendReq[c].stage = "insert" /\ sendReq'[c] /= sendReq[c]) =>
            /\ messagesTable' = messagesTable
            /\ editingMessageId'[c] = editingMessageId[c]]_vars

\* A has sent a reply to message 1 and has edited a message, and edit mode
\* is cleared
C18_Witness ==
  /\ Len(messagesTable) = 2
  /\ messagesTable[2].parent_message_id = 1
  /\ \E id \in StoredIds : messagesTable[id].edited_at /= NULL
  /\ sendReq["A"] = Idle
  /\ editingMessageId["A"] = NULL

\* C19: the existence check of handleStartChat reserves nothing and its
\* insert checks nothing: a lookup that goes on to insert leaves the table
\* as it is, and the insert, once the store commits it, appends the row
\* (user, other) whatever rows the table holds by then and navigates to it.
\* When A and B start a conversation with each other and both lookups run
\* before either insert, two rows of the pair {A, B} are stored.
C19_CheckThenCreateNotAtomic ==
  [][\A u \in Users :
       /\ (startReq[u].stage = "idle" /\ startReq'[u].stage = "insert") =>
            conversations' = conversations
       /\ (startReq[u].stage = "insert" /\ startReq'[u] = NoStart) =>
            \/ /\ toast'[u] = "Failed to start conversation"
               /\ conversations' = conversations
            \/ /\ conversations' =
                    Append(conversations,
                           [participant1_id |-> u,
                            participant2_id |-> startReq[u].other,
                            last_message_at |-> clock])
               /\ navigated'[u] = Len(conversations')]_vars

\* the table holds the row (A, B) and the row (B, A) and no other: each
\* lookup ran before the other user's insert
C19_Witness ==
  /\ Len(conversations) = 2
  /\ \E i, j \in 1..2 :
       /\ conversations[i].participant1_id = "A" /\ conversations[i].participant2_id = "B"
       /\ conversations[j].participant1_id = "B" /\ conversations[j].participant2_id = "A"
  /\ \A u \in Users : startReq[u] = NoStart

TypingRowsOf(table, conv, u) ==
  {r \in table : r.conversation_id = conv /\ r.user_id = u}

\* C21: the typing table holds at most one row per (conversation, user)
\* pair in every state, and a keystroke whose upsert reaches the store
\* leaves exactly one row of the typist, whose started_at is the time of
\* that keystroke.
C21_OneTypingRowStampedByLatestKeystroke ==
  [][/\ \A conv \in 1..MaxConvs, u \in Users :
          Cardinality(TypingRowsOf(typingTable', conv, u)) <= 1
     /\ \A c \in Clients :
          OnChange(c, <<"h">>, "ok") =>
            /\ Cardinality(TypingRowsOf(typingTable', route[c], c)) = 1
            /\ \A r \in TypingRowsOf(typingTable', route[c], c) : r.started_at = clock]_vars

\* the step in which client c enters a conversation
Entered(c) == route[c] = NULL /\ route'[c] /= NULL

C23_ReplyTargetClearedBySuccessOrCancel ==
  [][\A c \in Clients :
       /\ (replyingTo[c] /= NULL /\ replyingTo'[c] = NULL) =>
            \/ sendReq'[c] = sendReq[c]
            \/ sendReq[c].stage \in {"update", "insert"} /\ sendReq[c].outcome = "ok"
       /\ (sendReq[c].stage = "insert" /\ sendReq[c].outcome /= "ok"
           /\ sendReq'[c] /= sendReq[c]) =>
            replyingTo'[c] = replyingTo[c] /\ newMessage'[c] = newMessage[c]
       /\ (SubmissionAccepted(c) /\ sendReq'[c] = [stage |-> "insert", outcome |-> "ok"]) =>
            messagesTable'[Len(messagesTable')].parent_message_id = replyingTo[c]]_vars

\* C24: the client that handles an INSERT event whose row is flagged
\* deleted keeps its sequence, and one that handles any other INSERT event
\* appends exactly that row at the tail; the client that handles an UPDATE
\* event keeps the length of its sequence, replaces by the event's row the
\* entries with its id where they stand and keeps the others, so that an
\* UPDATE event for an id the sequence does not hold leaves it unchanged.
C24_RealtimeMerge ==
  [][\A c \in Clients :
       (inbox[c] /= <<>> /\ inbox'[c] = Tail(inbox[c])) =>
         LET ev == Head(inbox[c])
             current == messages[c]
             after == messages'[c]
         IN IF ev.type = "INSERT"
            THEN after = IF ev.new.is_deleted THEN current ELSE Append(current, ev.new)
            ELSE /\ Len(after) = Len(current)
                 /\ \A i \in 1..Len(current) :
                      after[i] = IF current[i].id = ev.new.id THEN ev.new ELSE current[i]
                 /\ (\A i \in 1..Len(current) : current[i].id /= ev.new.id)
                      => after = current]_vars

\* the event is handled and A's sequence holds message 1 as the event's row,
\* pinned, before message 2
C24_Witness ==
  /\ inbox["A"] = <<>>
  /\ Len(messages["A"]) = 2
  /\ messages["A"][1].id = 1 /\ messages["A"][1].is_pinned
  /\ messages["A"][2].id = 2 /\ ~messages["A"][2].is_pinned

\* the Conversations page of u is mounted and has nothing left to handle:
\* effects run, channel joined, no event and no fetch pending
ListSettled(u) ==
  /\ location[u] = "/conversations" /\ auth[u] = "user" /\ ~effects[u]
  /\ listChannel[u] = "joined"
  /\ listInbox[u] = 0
  /\ listFetch[u] = <<>>

\* C25: every answer of a successful fetch is the stored conversations of
\* the user, the latest first, each with the other participant as
\* otherUserId, every change event issues one refetch, and once the last
\* refetch answer is applied the list equals the stored state.
C25_ListEqualsStoredAfterLastRefetch ==
  \A u \in Clients :
    /\ \A k \in 1..Len(listFetch[u]) :
         listFetch[u][k].stage = "data" =>
           \A i \in 1..Len(listFetch[u][k].data) :
             LET e == listFetch[u][k].data[i]
             IN /\ IsParticipantOfRow(u, e)
                /\ e.otherUserId /= u
                /\ e.otherUserId \in {e.participant1_id, e.participant2_id}
                /\ i > 1 => listFetch[u][k].data[i - 1].last_message_at >= e.last_message_at
    /\ ListSettled(u) => convList[u] = SelectConversations(u)

\* the step in which client c handles a presence sync event
PresenceSynced(c) ==
  /\ presInbox[c] /= <<>>
  /\ presInbox'[c] = Tail(presInbox[c])
  /\ presChannel'[c] = presChannel[c]

\* C26: the client that handles a presence sync event sets its online
\* users to the presences of the channel state of that event without its
\* own user, whatever the set held before; no client's online users hold
\* its own user; a user becomes present in the channel only by the track
\* that its client sent once the channel reported SUBSCRIBED.
C26_OnlineUsersRebuiltWithoutSelf ==
  [][\A c \in Clients :
       /\ PresenceSynced(c) =>
            /\ onlineUsers'[c] = {u \in Head(presInbox[c]) : u /= c}
            /\ presence' = presence
       /\ c \notin onlineUsers'[c]
       /\ (c \notin presence /\ c \in presence') => presChannel[c] = "subscribed"]_vars

\* A and B are both tracked and each has handled the sync event of the
\* state that holds both: each shows the other and not itself
C26_Witness ==
  /\ presence = {"A", "B"}
  /\ presInbox["A"] = <<>>
  /\ presInbox["B"] = <<>>
  /\ onlineUsers["A"] = {"B"}
  /\ onlineUsers["B"] = {"A"}

\* C27: every step keeps every stored message, with its id, its
\* conversation, its sender and its creation time, and a step that stores
\* no new message (an edit, a soft delete, a pin toggle, a reaction toggle,
\* the marking as read) leaves every conversation's last_message_at as it
\* was.
C27_UpdatesKeepConversationSenderAndTimes ==
  [][/\ Len(messagesTable') >= Len(messagesTable)
     /\ \A i \in 1..Len(messagesTable) :
          /\ messagesTable'[i].id = messagesTable[i].id
          /\ messagesTable'[i].conversation_id = messagesTable[i].conversation_id
          /\ messagesTable'[i].sender_id = messagesTable[i].sender_id
          /\ messagesTable'[i].created_at = messagesTable[i].created_at
     /\ Len(messagesTable') = Len(messagesTable) => conversations' = conversations]_vars

\* A's first message has been read by B, edited, pinned, reacted to and
\* deleted, after A sent a second one
C27_Witness ==
  /\ Len(messagesTable) = 2
  /\ messagesTable[1].is_read
  /\ messagesTable[1].edited_at /= NULL
  /\ messagesTable[1].is_pinned
  /\ messagesTable[1].reactions /= <<>>
  /\ messagesTable[1].is_deleted
  /\ messagesTable[1].conversation_id = 1
  /\ messagesTable[1].created_at = 2
  /\ conversations[1].last_message_at = messagesTable[2].created_at

\* C28: in every state, the entries of every client's local message
\* sequence have pairwise different message ids, however the answer of
\* the initial load and the INSERT events of the channel interleave.
C28_LocalSequenceHasNoDuplicateIds ==
  \A c \in Clients :
    \A i, j \in 1..Len(messages[c]) :
      messages[c][i].id = messages[c][j].id => i = j

\* C29: whenever a client's isSending is true, it is false again later
\* with the handler at rest, whether the insert or update and the typing
\* row's delete succeeded, returned an error or threw; the guard of the
\* next submission then depends on the draft alone.
C29_InFlightFlagReleased ==
  \A c \in Clients :
    isSending[c] ~> (~isSending[c] /\ sendReq[c] = Idle /\ (SendRejected(c) <=> Trim(newMessage[c]) = <<>>))

\* A's second message is stored, a later submission of A has failed, and
\* the flag is released with a draft ready to be submitted
C29_Witness ==
  /\ Len(messagesTable) = 2
  /\ toast["A"] = "Failed to send message"
  /\ ~isSending["A"]
  /\ sendReq["A"] = Idle
  /\ newMessage["A"] /= <<>>
  /\ ~SendRejected("A")

\* the step in which client c applies the answer of a typing re-fetch and
\* is left with no re-fetch in flight and no typing event to handle
TypingSettles(c) ==
  /\ typingChannel[c] = "joined"
  /\ Len(typingFetch'[c]) < Len(typingFetch[c])
  /\ typingFetch'[c] = <<>>
  /\ typingInbox'[c] = 0

\* C30: when a client has handled every typing change event and applies
\* the last outstanding answer of the re-fetches they triggered, its
\* typing-user set is the stored typing rows of the conversation without
\* its own user, in whichever order the answers arrived.
C30_TypingUsersConvergeToStored ==
  [][\A c \in Clients : TypingSettles(c) => typingUsers'[c] = SelectTyping(c)]_vars

====
